---- MODULE Spec2Model ----
(***************************************************************************)
(* Model of the agent-to-agent messaging substrate: the JSON-RPC envelopes *)
(* (a2a_protocol.py), the communication log, the tool gateway              *)
(* (mcp_client.py over mcp_server.py), the two specialist agents and the   *)
(* router.                                                                 *)
(***************************************************************************)
EXTENDS Integers, Sequences, FiniteSets, TLC

VARIABLES
    log,        \* a2a_logger.messages: the sequence of logged entries
    customers,  \* Data Store: customers table, id -> row
    tickets,    \* Data Store: tickets table, in rowid order
    connected,  \* per agent: mcp_client is not None
    uuid,       \* number of uuid4() values drawn so far
    clock,      \* datetime.now()
    resp,       \* the envelope object last built by a constructor / from_dict
    wire,       \* the envelope last serialized by to_dict, and the mapping produced
    last,       \* the last call made on the system and what it returned
    heap,       \* the mutable objects envelopes and log entries refer to, by address
    calls       \* the route_query invocations running concurrently, each at its position

vars == <<log, customers, tickets, connected, uuid, clock, resp, wire, last, heap, calls>>

-----------------------------------------------------------------------------
(* Python values. Every value carries its type, so that values of different *)
(* types can be compared (Python's == between them is False).               *)

None == [tag |-> "none"]
IntV(n) == [tag |-> "int", v |-> n]
StrV(s) == [tag |-> "str", v |-> s]
BoolV(b) == [tag |-> "bool", v |-> b]
DictV(f) == [tag |-> "dict", v |-> f]
ListV(q) == [tag |-> "list", v |-> q]
\* str(uuid.uuid4()): the n-th string drawn; differs from every other string
Uuid(n) == [tag |-> "uuid", v |-> n]
\* datetime.now().isoformat() at time t
Stamp(t) == [tag |-> "ts", v |-> t]
\* f"{prefix}{arg}"
Fmt(prefix, arg) == [tag |-> "fstr", v |-> <<prefix, arg>>]

EmptyDict == DictV(<<>>)

\* bool(v): None, 0, "", False, {} and [] are falsy
Truthy(x) ==
    CASE x.tag = "none" -> FALSE
      [] x.tag = "int"  -> x.v # 0
      [] x.tag = "str"  -> x.v # ""
      [] x.tag = "bool" -> x.v
      [] x.tag = "dict" -> DOMAIN x.v # {}
      [] x.tag = "list" -> Len(x.v) > 0
      [] OTHER -> TRUE

IsDict(x) == x.tag = "dict"
HasKey(d, k) == k \in DOMAIN d.v
\* d.get(k, default) on a dict d
PyGet(d, k, default) == IF k \in DOMAIN d.v THEN d.v[k] ELSE default
\* d[k] = x on a dict d
PySet(d, k, x) == DictV([j \in DOMAIN d.v \cup {k} |-> IF j = k THEN x ELSE d.v[j]])

\* the outcome of a call: a returned value or a raised exception with str(e)
Ret(x) == [raised |-> FALSE, val |-> x, exc |-> None]
Raise(m) == [raised |-> TRUE, val |-> None, exc |-> m]

-----------------------------------------------------------------------------
(* a2a_protocol.py: envelopes *)

A2AMessage(method, params, from_agent, to_agent, id, u, now) ==
    [jsonrpc |-> StrV("2.0"), method |-> method, params |-> params,
     from_agent |-> from_agent, to_agent |-> to_agent,
     id |-> IF Truthy(id) THEN id ELSE Uuid(u + 1),
     timestamp |-> Stamp(now)]

\* the number of uuid4() values drawn after constructing a message with this id
UuidAfter(id, u) == IF Truthy(id) THEN u ELSE u + 1

Message_to_dict(m) ==
    DictV([jsonrpc |-> m.jsonrpc, method |-> m.method, params |-> m.params,
          id |-> m.id, from_agent |-> m.from_agent, to_agent |-> m.to_agent,
          timestamp |-> m.timestamp])

\* a variant that keeps the construction-time timestamp
Message_from_dict_restamped(data, u, now) ==
    Ret(A2AMessage(PyGet(data, "method", None), PyGet(data, "params", None),
                   PyGet(data, "from_agent", None), PyGet(data, "to_agent", None),
                   PyGet(data, "id", None), u, now))

\* A2AMessage.from_dict(data) at time now, after u uuid4() values were drawn:
\* data["method"], data["params"], data["from_agent"] and data["to_agent"] raise
\* KeyError when absent, the id is read with data.get("id")
Message_from_dict(data, u, now) ==
    LET absent == {k \in {"method", "params", "from_agent", "to_agent"} : ~HasKey(data, k)}
        msg == A2AMessage(data.v["method"], data.v["params"], data.v["from_agent"],
                          data.v["to_agent"], PyGet(data, "id", None), u, now)
    IN  IF "method" \in absent THEN Raise(StrV("'method'"))
        ELSE IF "params" \in absent THEN Raise(StrV("'params'"))
        ELSE IF "from_agent" \in absent THEN Raise(StrV("'from_agent'"))
        ELSE IF "to_agent" \in absent THEN Raise(StrV("'to_agent'"))
        ELSE IF HasKey(data, "timestamp")
        THEN Ret([msg EXCEPT !.timestamp = data.v["timestamp"]])
        ELSE Ret(msg)

A2AResponse(result, error, id, from_agent, now) ==
    [jsonrpc |-> StrV("2.0"), result |-> result, error |-> error, id |-> id,
     from_agent |-> from_agent, timestamp |-> Stamp(now)]

Response_to_dict(r) ==
    LET response == [jsonrpc |-> r.jsonrpc, id |-> r.id,
                     from_agent |-> r.from_agent, timestamp |-> r.timestamp]
    IN  IF Truthy(r.error)
        THEN DictV(response @@ [error |-> r.error])
        ELSE DictV(response @@ [result |-> r.result])

Response_from_dict(data, now) ==
    LET r == A2AResponse(PyGet(data, "result", None), PyGet(data, "error", None),
                         PyGet(data, "id", None), PyGet(data, "from_agent", None), now)
    IN  IF HasKey(data, "timestamp")
        THEN [r EXCEPT !.timestamp = data.v["timestamp"]]
        ELSE r

-----------------------------------------------------------------------------
(* a2a_protocol.py: A2ALogger *)

\* a variant that puts the new entry in front
log_message_prepending(lg, m) == <<[type |-> "message", data |-> Message_to_dict(m)]>> \o lg

log_message(lg, m) == Append(lg, [type |-> "message", data |-> Message_to_dict(m)])

\* a variant that appends the entry under another type
log_response_mistyped(lg, r) == Append(lg, [type |-> "reply", data |-> Response_to_dict(r)])

log_response(lg, r) == Append(lg, [type |-> "response", data |-> Response_to_dict(r)])

\* a variant that stops at the first matching entry
get_conversation_first(lg, message_id) ==
    LET hit == SelectSeq(lg, LAMBDA msg : PyGet(msg.data, "id", None) = message_id)
    IN  IF hit = <<>> THEN hit ELSE <<hit[1]>>

get_conversation(lg, message_id) ==
    SelectSeq(lg, LAMBDA msg : PyGet(msg.data, "id", None) = message_id)

\* the positions of the entries of a type: sum(1 for m in self.messages if m["type"] == ...)
OfType(lg, type) == {i \in 1..Len(lg) : lg[i].type = type}

summary(lg) ==
    [total_communications |-> Len(lg),
     messages_sent |-> Cardinality(OfType(lg, "message")),
     responses_received |-> Cardinality(OfType(lg, "response")),
     errors |-> Cardinality({i \in OfType(lg, "response") :
                               Truthy(PyGet(lg[i].data, "error", None))})]

-----------------------------------------------------------------------------
(* mcp_server.py: the Data Store operations. Each takes the world w (the    *)
(* mutable state threaded through one call) and yields the world after it   *)
(* and the outcome r.                                                       *)

Out(w, r) == [w |-> w, r |-> r]

\* sequencing: evaluate the step e once, then continue with F on what it yielded
Then(e, F(_)) == CHOOSE y \in {F(x) : x \in {e}} : TRUE

\* the trace of one call: the log entries, deliveries, tool calls and Text
\* Generator calls it made, in the order they happened
Note(w, ev) == [w EXCEPT !.trace = Append(@, ev)]

RECURSIVE SortedSeq(_)
\* the elements of a finite set of integers in ascending order (rowid order)
SortedSeq(S) ==
    IF S = {} THEN <<>>
    ELSE LET m == CHOOSE x \in S : \A y \in S : x <= y
         IN  <<m>> \o SortedSeq(S \ {m})

Take(q, n) == IF n < 0 \/ n >= Len(q) THEN q ELSE SubSeq(q, 1, n)

\* dict(row) of a customers row
CustomerRow(w, id) == DictV([id |-> IntV(id)] @@ w.customers[id])

\* sqlite3.connect(DB_PATH) raises when the database file cannot be opened (w.down)
Unavailable == StrV("unable to open database file")
get_db_connection(w) == IF w.down THEN Raise(Unavailable) ELSE Ret(None)

\* sqlite3 cannot bind a dict or a list as a statement parameter
Unbindable(x) == x.tag \in {"dict", "list"}
BindError == StrV("Error binding parameter 0 - probably unsupported type.")

\* SELECT ... FROM customers WHERE id = ?
CustomerExists(w, customer_id) ==
    customer_id.tag = "int" /\ customer_id.v \in DOMAIN w.customers

\* a variant that reports a missing customer with success false beside the error
_get_customer_flagged(w, customer_id) ==
    IF CustomerExists(w, customer_id)
    THEN Out(w, Ret(DictV([success |-> BoolV(TRUE),
                           customer |-> CustomerRow(w, customer_id.v)])))
    ELSE Out(w, Ret(DictV([success |-> BoolV(FALSE),
                           error |-> StrV("Customer not found")])))

_get_customer(w, customer_id) ==
    IF get_db_connection(w).raised THEN Out(w, get_db_connection(w))
    ELSE IF Unbindable(customer_id) THEN Out(w, Raise(BindError))
    ELSE IF CustomerExists(w, customer_id)
    THEN Out(w, Ret(DictV([success |-> BoolV(TRUE),
                           customer |-> CustomerRow(w, customer_id.v)])))
    ELSE Out(w, Ret(DictV([error |-> StrV("Customer not found"),
                           customer_id |-> customer_id])))

_list_customers(w, status, limit) ==
    IF get_db_connection(w).raised THEN Out(w, get_db_connection(w))
    ELSE IF Unbindable(status) \/ Unbindable(limit) THEN Out(w, Raise(BindError))
    ELSE IF limit.tag # "int" THEN Out(w, Raise(StrV("datatype mismatch")))
    ELSE
    LET ids == SortedSeq(DOMAIN w.customers)
        hit == IF status = StrV("all") THEN ids
               ELSE SelectSeq(ids, LAMBDA i : w.customers[i].status = status)
        rows == Take(hit, limit.v)
    IN  Out(w, Ret(DictV([success |-> BoolV(TRUE),
                          count |-> IntV(Len(rows)),
                          customers |-> ListV([k \in 1..Len(rows) |->
                                                 CustomerRow(w, rows[k])])])))

_update_customer(w, customer_id, name, email, phone, status) ==
    LET fields == {f \in {"name", "email", "phone", "status"} :
                      Truthy([name |-> name, email |-> email,
                              phone |-> phone, status |-> status][f])}
        given == [name |-> name, email |-> email, phone |-> phone, status |-> status]
    IN  IF fields = {}
        THEN Out(w, Ret(DictV([error |-> StrV("No fields to update")])))
        ELSE IF get_db_connection(w).raised THEN Out(w, get_db_connection(w))
        ELSE IF Unbindable(customer_id) \/ \E f \in fields : Unbindable(given[f])
        THEN Out(w, Raise(BindError))
        ELSE IF ~CustomerExists(w, customer_id)
        THEN Out(w, Ret(DictV([error |-> StrV("Customer not found or no changes made"),
                               customer_id |-> customer_id])))
        ELSE IF "status" \in fields /\ status \notin {StrV("active"), StrV("disabled")}
        THEN Out(w, Raise(StrV("CHECK constraint failed: status IN ('active', 'disabled')")))
        ELSE
        LET old == w.customers[customer_id.v]
            new == [c \in DOMAIN old |->
                      IF c \in fields THEN given[c]
                      ELSE IF c = "updated_at" THEN Stamp(clock)
                      ELSE old[c]]
            w2 == [w EXCEPT !.customers[customer_id.v] = new]
        IN  Out(w2, Ret(DictV([success |-> BoolV(TRUE),
                               message |-> StrV("Customer updated successfully"),
                               customer |-> CustomerRow(w2, customer_id.v)])))

\* dict(row) of a tickets row
TicketRow(t) == DictV(t)

\* a variant that inserts the ticket without verifying that the customer exists
_create_ticket_unverified(w, customer_id, issue, priority) ==
    LET t == [id |-> IntV(Len(w.tickets) + 1), customer_id |-> customer_id,
              issue |-> issue, status |-> StrV("open"), priority |-> priority,
              created_at |-> Stamp(clock)]
    IN  Out([w EXCEPT !.tickets = Append(@, t)],
            Ret(DictV([success |-> BoolV(TRUE),
                       message |-> StrV("Ticket created successfully"),
                       ticket |-> TicketRow(t)])))

_create_ticket(w, customer_id, issue, priority) ==
    IF get_db_connection(w).raised THEN Out(w, get_db_connection(w))
    ELSE IF Unbindable(customer_id) THEN Out(w, Raise(BindError))
    ELSE IF ~CustomerExists(w, customer_id)
    THEN Out(w, Ret(DictV([error |-> StrV("Customer not found"),
                           customer_id |-> customer_id])))
    ELSE IF Unbindable(issue) \/ Unbindable(priority) THEN Out(w, Raise(BindError))
    ELSE IF issue = None
    THEN Out(w, Raise(StrV("NOT NULL constraint failed: tickets.issue")))
    ELSE IF priority \notin {StrV("low"), StrV("medium"), StrV("high")}
    THEN Out(w, Raise(StrV("CHECK constraint failed: priority IN ('low', 'medium', 'high')")))
    ELSE
    LET t == [id |-> IntV(Len(w.tickets) + 1), customer_id |-> customer_id,
              issue |-> issue, status |-> StrV("open"), priority |-> priority,
              created_at |-> Stamp(clock)]
    IN  Out([w EXCEPT !.tickets = Append(@, t)],
            Ret(DictV([success |-> BoolV(TRUE),
                       message |-> StrV("Ticket created successfully"),
                       ticket |-> TicketRow(t)])))

RECURSIVE OrderDesc(_)
\* ORDER BY created_at DESC; rows with equal created_at stay in rowid order
OrderDesc(q) ==
    IF q = <<>> THEN <<>>
    ELSE LET top == CHOOSE s \in {q[i].created_at.v : i \in 1..Len(q)} :
                        \A i \in 1..Len(q) : q[i].created_at.v <= s
         IN  SelectSeq(q, LAMBDA t : t.created_at.v = top)
             \o OrderDesc(SelectSeq(q, LAMBDA t : t.created_at.v # top))

TicketRows(q) == ListV([k \in 1..Len(q) |-> TicketRow(q[k])])

_get_customer_history(w, customer_id) ==
    IF get_db_connection(w).raised THEN Out(w, get_db_connection(w))
    ELSE IF Unbindable(customer_id) THEN Out(w, Raise(BindError))
    ELSE IF ~CustomerExists(w, customer_id)
    THEN Out(w, Ret(DictV([error |-> StrV("Customer not found"),
                           customer_id |-> customer_id])))
    ELSE
    LET rows == OrderDesc(SelectSeq(w.tickets, LAMBDA t : t.customer_id = customer_id))
    IN  Out(w, Ret(DictV([success |-> BoolV(TRUE),
                          customer |-> CustomerRow(w, customer_id.v),
                          ticket_count |-> IntV(Len(rows)),
                          tickets |-> TicketRows(rows)])))

_get_tickets(w, status, priority, customer_ids) ==
    IF get_db_connection(w).raised THEN Out(w, get_db_connection(w))
    ELSE IF Truthy(customer_ids) /\ customer_ids.tag \notin {"list", "str", "fstr", "dict"}
    THEN Out(w, Raise(StrV("object has no len()")))
    ELSE IF Unbindable(status) \/ Unbindable(priority)
            \/ (Truthy(customer_ids) /\ customer_ids.tag # "list")
            \/ (Truthy(customer_ids) /\ \E k \in 1..Len(customer_ids.v) :
                                           Unbindable(customer_ids.v[k]))
    THEN Out(w, Raise(BindError))
    ELSE
    LET ok(t) == /\ (status # StrV("all") => t.status = status)
                 /\ (priority # StrV("all") => t.priority = priority)
                 /\ (Truthy(customer_ids) =>
                        \E k \in 1..Len(customer_ids.v) : customer_ids.v[k] = t.customer_id)
        rows == OrderDesc(SelectSeq(w.tickets, ok))
    IN  Out(w, Ret(DictV([success |-> BoolV(TRUE),
                          count |-> IntV(Len(rows)),
                          tickets |-> TicketRows(rows)])))

-----------------------------------------------------------------------------
(* mcp_client.py: the Tool Gateway *)

KeyError(k) == StrV(k)

\* the exception raised inside call_tool, as the mapping call_tool returns for it
ToolFault(w, tool_name, arguments, exc) ==
    Out(w, Ret(DictV([error |-> exc, tool |-> StrV(tool_name), arguments |-> arguments])))

\* a variant whose `except` lets the fault escape
Caught_escaping(step, tool_name, arguments) == step

Caught(step, tool_name, arguments) ==
    Then(step, LAMBDA o :
        IF o.r.raised THEN ToolFault(o.w, tool_name, arguments, o.r.exc) ELSE o)

\* a variant that refuses an unknown tool name with an exception
UnknownTool_raising(w, tool_name) ==
    Out(w, Raise(Fmt("Unknown tool: ", StrV(tool_name))))

\* the final `else` of call_tool
UnknownTool(w, tool_name) ==
    Out(w, Ret(DictV([error |-> Fmt("Unknown tool: ", StrV(tool_name))])))

call_tool(w0, tool_name, arguments) ==
    LET w == Note(w0, <<"tool", tool_name>>)
        need(k) == HasKey(arguments, k)
        arg(k, d) == PyGet(arguments, k, d)
    IN  CASE tool_name = "get_customer" ->
               IF ~need("customer_id")
               THEN ToolFault(w, tool_name, arguments, KeyError("'customer_id'"))
               ELSE Caught(_get_customer(w, arguments.v["customer_id"]),
                           tool_name, arguments)
          [] tool_name = "list_customers" ->
               Caught(_list_customers(w, arg("status", StrV("all")), arg("limit", IntV(10))),
                      tool_name, arguments)
          [] tool_name = "update_customer" ->
               IF ~need("customer_id")
               THEN ToolFault(w, tool_name, arguments, KeyError("'customer_id'"))
               ELSE Caught(_update_customer(w, arguments.v["customer_id"],
                                            arg("name", None), arg("email", None),
                                            arg("phone", None), arg("status", None)),
                           tool_name, arguments)
          [] tool_name = "create_ticket" ->
               IF ~need("customer_id")
               THEN ToolFault(w, tool_name, arguments, KeyError("'customer_id'"))
               ELSE IF ~need("issue")
               THEN ToolFault(w, tool_name, arguments, KeyError("'issue'"))
               ELSE Caught(_create_ticket(w, arguments.v["customer_id"],
                                          arguments.v["issue"],
                                          arg("priority", StrV("medium"))),
                           tool_name, arguments)
          [] tool_name = "get_customer_history" ->
               IF ~need("customer_id")
               THEN ToolFault(w, tool_name, arguments, KeyError("'customer_id'"))
               ELSE Caught(_get_customer_history(w, arguments.v["customer_id"]),
                           tool_name, arguments)
          [] tool_name = "get_tickets" ->
               Caught(_get_tickets(w, arg("status", StrV("all")),
                                   arg("priority", StrV("all")),
                                   arg("customer_ids", None)),
                      tool_name, arguments)
          [] OTHER -> UnknownTool(w, tool_name)

-----------------------------------------------------------------------------
(* The Text Generator / Intent Classifier (genai.GenerativeModel).  A text  *)
(* is what generate_content(...).text holds: raw is the text itself, fenced *)
(* says whether it is wrapped in ``` code fences, json is the value the     *)
(* text inside the fences denotes, or BadJson when it is not JSON.          *)

BadJson == [tag |-> "badjson"]

Text(raw, fenced, json) == [raw |-> raw, fenced |-> fenced, json |-> json]

\* response_text.replace('```json', '').replace('```', '').strip()
StripFences(t) == [t EXCEPT !.fenced = FALSE]

JSONDecodeError == StrV("Expecting value: line 1 column 1 (char 0)")

json_loads(t) ==
    IF t.fenced \/ t.json = BadJson THEN Raise(JSONDecodeError) ELSE Ret(t.json)

\* self.model.generate_content(prompt): the next text the collaborator answers
generate_content(w, who) ==
    [w |-> [w EXCEPT !.gen = Tail(@), !.trace = Append(@, <<"gen", who>>)],
     text |-> Head(w.gen)]

-----------------------------------------------------------------------------
(* data_agent.py and support_agent.py: the operations behind the dispatch *)

\* an exception that leaves the dispatched operation
Fail(w, exc) == Out(Note(w, <<"raise", exc>>), Raise(exc))

NoAttribute(x, attr) == Fmt("object has no attribute ", <<x.tag, attr>>)
UnexpectedKeyword(k) == Fmt("got an unexpected keyword argument ", StrV(k))
NotAMapping(x) == Fmt("argument after ** must be a mapping, not ", StrV(x.tag))

\* self.mcp_client.call_tool(...): mcp_client is None until connect_mcp()
\* a variant that connects the gateway client on first use
ClientCall_connecting(w, agent, tool_name, arguments) ==
    call_tool([w EXCEPT !.objects.agents[agent].mcp_client = TRUE], tool_name, arguments)

\* self.mcp_client.call_tool(...): mcp_client is None until connect_mcp has run
ClientCall(w, agent, tool_name, arguments) ==
    IF ~w.objects.agents[agent].mcp_client THEN Fail(w, NoAttribute(None, "call_tool"))
    ELSE call_tool(w, tool_name, arguments)

Data_get_customer(w, customer_id) ==
    ClientCall(w, "data_agent", "get_customer", DictV([customer_id |-> customer_id]))

Data_list_customers(w, status, limit) ==
    ClientCall(w, "data_agent", "list_customers",
               DictV([status |-> status, limit |-> limit]))

\* update_data: customer_id and the truthy ones among the four fields
UpdateData(customer_id, given) ==
    DictV([k \in {"customer_id"} \cup {f \in DOMAIN given : Truthy(given[f])} |->
              IF k = "customer_id" THEN customer_id ELSE given[k]])

\* a variant that sends the update whatever the validation answers
Data_update_customer_unvalidated(w, customer_id, name, email, phone, status) ==
    LET update_data == UpdateData(customer_id, [name |-> name, email |-> email,
                                                phone |-> phone, status |-> status])
        g == generate_content(w, "validate_email")
    IN  IF ~Truthy(email)
        THEN ClientCall(w, "data_agent", "update_customer", update_data)
        ELSE ClientCall(g.w, "data_agent", "update_customer", update_data)

Data_update_customer(w, customer_id, name, email, phone, status) ==
    LET update_data == UpdateData(customer_id, [name |-> name, email |-> email,
                                                phone |-> phone, status |-> status])
        g == generate_content(w, "validate_email")
        validation == json_loads(StripFences(g.text))
    IN  IF ~Truthy(email)
        THEN ClientCall(w, "data_agent", "update_customer", update_data)
        ELSE IF validation.raised THEN Fail(g.w, validation.exc)
        ELSE IF ~IsDict(validation.val) THEN Fail(g.w, NoAttribute(validation.val, "get"))
        ELSE IF ~Truthy(PyGet(validation.val, "valid", None))
        THEN Out(g.w, Ret(DictV([error |-> Fmt("Invalid email: ",
                                               PyGet(validation.val, "message", None)),
                                 customer_id |-> customer_id])))
        ELSE ClientCall(g.w, "data_agent", "update_customer", update_data)

Data_get_customer_history(w, customer_id) ==
    ClientCall(w, "data_agent", "get_customer_history",
               DictV([customer_id |-> customer_id]))

Data_create_ticket(w, customer_id, issue, priority) ==
    ClientCall(w, "data_agent", "create_ticket",
               DictV([customer_id |-> customer_id, issue |-> issue,
                      priority |-> priority]))

\* get_tickets of either agent: the same code in both
Agent_get_tickets(w, agent, status, priority, customer_ids) ==
    LET params == IF Truthy(customer_ids)
                  THEN DictV([status |-> status, priority |-> priority,
                              customer_ids |-> customer_ids])
                  ELSE DictV([status |-> status, priority |-> priority])
    IN  ClientCall(w, agent, "get_tickets", params)

\* f(**kwargs) for a function whose keyword parameters are `allowed`
BadKeyword(kwargs, allowed) == CHOOSE k \in DOMAIN kwargs.v : k \notin allowed

Support_handle_support_query(w, query, customer_context, ticket_context) ==
    LET g == generate_content(w, "handle_support_query")
        result == json_loads(StripFences(g.text))
    IN  IF Truthy(ticket_context) /\ ticket_context.tag \notin {"list", "str"}
        THEN Fail(w, StrV("unhashable type: 'slice'"))
        ELSE IF result.raised THEN Fail(g.w, result.exc)
        ELSE IF ~IsDict(result.val) THEN Fail(g.w, NoAttribute(result.val, "get"))
        ELSE Out(g.w, result)

Support_analyze_urgency(w, query) ==
    LET g == generate_content(w, "analyze_urgency")
        result == json_loads(StripFences(g.text))
    IN  IF result.raised THEN Fail(g.w, result.exc)
        ELSE IF ~IsDict(result.val) THEN Fail(g.w, NoAttribute(result.val, "get"))
        ELSE Out(g.w, result)

Support_generate_response(w, query, context) ==
    LET g == generate_content(w, "generate_response")
        result == json_loads(StripFences(g.text))
    IN  IF result.raised THEN Fail(g.w, result.exc)
        ELSE Out(g.w, result)

-----------------------------------------------------------------------------
(* handle_message of the two agents *)

get(params, k) == PyGet(params, k, None)

\* a variant that reads the params before it looks at the method
Data_dispatch_eager(w, method, params) ==
    IF ~IsDict(params) THEN Fail(w, NoAttribute(params, "get"))
    ELSE Out(w, Ret(DictV([error |-> Fmt("Unknown method: ", method)])))

Data_dispatch(w, method, params) ==
    CASE method = StrV("get_customer") ->
           IF ~IsDict(params) THEN Fail(w, NoAttribute(params, "get"))
           ELSE Data_get_customer(w, get(params, "customer_id"))
      [] method = StrV("list_customers") ->
           IF ~IsDict(params) THEN Fail(w, NoAttribute(params, "get"))
           ELSE Data_list_customers(w, PyGet(params, "status", StrV("all")),
                                    PyGet(params, "limit", IntV(10)))
      [] method = StrV("update_customer") ->
           IF ~IsDict(params) THEN Fail(w, NoAttribute(params, "get"))
           ELSE IF DOMAIN params.v \ {"customer_id", "name", "email", "phone", "status"} # {}
           THEN Fail(w, UnexpectedKeyword(
                          BadKeyword(params, {"customer_id", "name", "email",
                                              "phone", "status"})))
           ELSE Data_update_customer(w, get(params, "customer_id"), get(params, "name"),
                                     get(params, "email"), get(params, "phone"),
                                     get(params, "status"))
      [] method = StrV("get_customer_history") ->
           IF ~IsDict(params) THEN Fail(w, NoAttribute(params, "get"))
           ELSE Data_get_customer_history(w, get(params, "customer_id"))
      [] method = StrV("create_ticket") ->
           IF ~IsDict(params) THEN Fail(w, NoAttribute(params, "get"))
           ELSE Data_create_ticket(w, get(params, "customer_id"), get(params, "issue"),
                                   PyGet(params, "priority", StrV("medium")))
      [] method = StrV("get_tickets") ->
           IF ~IsDict(params) THEN Fail(w, NotAMapping(params))
           ELSE IF DOMAIN params.v \ {"status", "priority", "customer_ids"} # {}
           THEN Fail(w, UnexpectedKeyword(
                          BadKeyword(params, {"status", "priority", "customer_ids"})))
           ELSE Agent_get_tickets(w, "data_agent", PyGet(params, "status", StrV("all")),
                                  PyGet(params, "priority", StrV("all")),
                                  get(params, "customer_ids"))
      [] OTHER -> Out(w, Ret(DictV([error |-> Fmt("Unknown method: ", method)])))

Support_dispatch(w, method, params) ==
    CASE method = StrV("handle_support_query") ->
           IF ~IsDict(params) THEN Fail(w, NoAttribute(params, "get"))
           ELSE Support_handle_support_query(w, get(params, "query"),
                                             get(params, "customer_context"),
                                             get(params, "ticket_context"))
      [] method = StrV("analyze_urgency") ->
           IF ~IsDict(params) THEN Fail(w, NoAttribute(params, "get"))
           ELSE Support_analyze_urgency(w, get(params, "query"))
      [] method = StrV("generate_response") ->
           IF ~IsDict(params) THEN Fail(w, NoAttribute(params, "get"))
           ELSE Support_generate_response(w, get(params, "query"),
                                          PyGet(params, "context", EmptyDict))
      [] method = StrV("get_tickets") ->
           IF ~IsDict(params) THEN Fail(w, NotAMapping(params))
           ELSE IF DOMAIN params.v \ {"status", "priority", "customer_ids"} # {}
           THEN Fail(w, UnexpectedKeyword(
                          BadKeyword(params, {"status", "priority", "customer_ids"})))
           ELSE Agent_get_tickets(w, "support_agent", PyGet(params, "status", StrV("all")),
                                  PyGet(params, "priority", StrV("all")),
                                  get(params, "customer_ids"))
      [] OTHER -> Out(w, Ret(DictV([error |-> Fmt("Unknown method: ", method)])))

Dispatch(w, agent, method, params) ==
    IF agent = "data_agent" THEN Data_dispatch(w, method, params)
    ELSE Support_dispatch(w, method, params)

\* {"code": -32603, "message": str(e)}
InternalError(message) == DictV([code |-> IntV(-32603), message |-> message])

\* a variant that drops the request id on the error path and answers in the
\* name of the addressee on the success path
Respond_unaddressed(agent, message, o) ==
    IF o.r.raised
    THEN A2AResponse(None, InternalError(o.r.exc), None, StrV(agent), clock)
    ELSE A2AResponse(o.r.val, None, message.id, StrV(message.to_agent.v), clock)

\* the response built in the try block or in the except block
Respond(agent, message, o) ==
    IF o.r.raised
    THEN A2AResponse(None, InternalError(o.r.exc), message.id, StrV(agent), clock)
    ELSE A2AResponse(o.r.val, None, message.id, StrV(agent), clock)

\* a variant whose except clause does not cover json.JSONDecodeError
handle_message_unguarded(w, agent, message) ==
    LET w1 == Note(Note([w EXCEPT !.log = log_message(@, message)], <<"log", "message">>),
                   <<"deliver", agent>>)
    IN  Then(Dispatch(w1, agent, message.method, message.params), LAMBDA o :
            IF o.r.raised /\ o.r.exc = JSONDecodeError THEN o
            ELSE Then(Respond(agent, message, o), LAMBDA response :
                    Out(Note([o.w EXCEPT !.log = log_response(@, response)],
                         <<"log", "response">>), Ret(response))))

\* a variant that returns an error response without logging it
handle_message_unlogged(w, agent, message) ==
    LET w1 == Note(Note([w EXCEPT !.log = log_message(@, message)], <<"log", "message">>),
                   <<"deliver", agent>>)
    IN  Then(Dispatch(w1, agent, message.method, message.params), LAMBDA o :
            Then(Respond(agent, message, o), LAMBDA response :
                IF o.r.raised THEN Out(o.w, Ret(response))
                ELSE Out(Note([o.w EXCEPT !.log = log_response(@, response)],
                         <<"log", "response">>), Ret(response))))

\* a variant that logs the incoming envelope only once the operation has finished
handle_message_late(w, agent, message) ==
    LET w1 == Note(w, <<"deliver", agent>>)
    IN  Then(Dispatch(w1, agent, message.method, message.params), LAMBDA o :
            Then(Respond(agent, message, o), LAMBDA response :
                Out(Note(Note([o.w EXCEPT !.log = log_response(log_message(@, message),
                                                               response)],
                              <<"log", "message">>), <<"log", "response">>),
                    Ret(response))))

handle_message(w, agent, message) ==
    LET w1 == Note(Note([w EXCEPT !.log = log_message(@, message)], <<"log", "message">>),
                   <<"deliver", agent>>)
    IN  Then(Dispatch(w1, agent, message.method, message.params), LAMBDA o :
            Then(Respond(agent, message, o), LAMBDA response :
                Out(Note([o.w EXCEPT !.log = log_response(@, response)],
                         <<"log", "response">>), Ret(response))))

-----------------------------------------------------------------------------
(* router_agent.py *)

\* A2AMessage(method=..., params=..., from_agent=self.agent_id, to_agent=...)
\* followed by await <agent>.handle_message(message)
\* a variant that issues every envelope under one fixed id
Send_fixed_id(w, agent, method, params) ==
    LET message == A2AMessage(StrV(method), params, StrV("router_agent"), StrV(agent),
                              StrV("router-request"), w.uuid, clock)
    IN  handle_message(w, agent, message)

\* a variant that sends the envelope anew when the answer carries an error, the
\* Text Generator answering the second time as it did the first
Send_retrying(w, agent, method, params) ==
    LET message == A2AMessage(StrV(method), params, StrV("router_agent"), StrV(agent),
                              None, w.uuid, clock)
        first == handle_message([w EXCEPT !.uuid = UuidAfter(None, @)], agent, message)
        again == A2AMessage(StrV(method), params, StrV("router_agent"), StrV(agent),
                            None, first.w.uuid, clock)
    IN  IF Truthy(first.r.val.error)
        THEN handle_message([first.w EXCEPT !.uuid = UuidAfter(None, @), !.gen = w.gen],
                            agent, again)
        ELSE first

\* a variant that addresses every envelope to the Data Agent, whoever receives it
Send_misaddressed(w, agent, method, params) ==
    LET message == A2AMessage(StrV(method), params, StrV("router_agent"),
                              StrV("data_agent"), None, w.uuid, clock)
    IN  handle_message([w EXCEPT !.uuid = UuidAfter(None, @)], agent, message)

Send(w, agent, method, params) ==
    LET message == A2AMessage(StrV(method), params, StrV("router_agent"), StrV(agent),
                              None, w.uuid, clock)
    IN  handle_message([w EXCEPT !.uuid = UuidAfter(None, @)], agent, message)

Fallback(customer_id) ==
    DictV([type |-> StrV("simple_data_retrieval"),
           intents |-> ListV(<<StrV("get_customer")>>),
           requires_data_agent |-> BoolV(TRUE),
           requires_support_agent |-> BoolV(FALSE),
           customer_id_mentioned |-> customer_id,
           urgency |-> StrV("low"),
           explanation |-> StrV("Fallback due to parsing error")])

_analyze_intent(w, query, customer_id) ==
    LET g == generate_content(w, "analyze_intent")
        result == json_loads(StripFences(g.text))
    IN  IF result.raised THEN Out(g.w, Ret(Fallback(customer_id)))
        ELSE Out(g.w, result)

\* if not customer_id: customer_id = intent_analysis.get("customer_id_mentioned")
ResolveId(customer_id, intent_analysis) ==
    IF ~Truthy(customer_id) THEN get(intent_analysis, "customer_id_mentioned")
    ELSE customer_id

\* a variant without the `if not customer_id: return {"error": ...}` guard
_handle_simple_query_unchecked(w, query, customer_id0, intent_analysis) ==
    LET customer_id == ResolveId(customer_id0, intent_analysis)
    IN  Then(Send(w, "data_agent", "get_customer",
                  DictV([customer_id |-> customer_id])),
             LAMBDA o : Out(o.w, Ret(o.r.val.result)))

_handle_simple_query(w, query, customer_id0, intent_analysis) ==
    LET customer_id == ResolveId(customer_id0, intent_analysis)
    IN  IF ~Truthy(customer_id)
        THEN Out(w, Ret(DictV([error |-> StrV("Customer ID required but not provided")])))
        ELSE Then(Send(w, "data_agent", "get_customer",
                       DictV([customer_id |-> customer_id])),
                  LAMBDA o : Out(o.w, Ret(o.r.val.result)))

\* step 2 of _handle_coordinated_query, with the context step 1 produced
CoordinatedSupport(w, query, customer_context) ==
    Then(Send(w, "support_agent", "handle_support_query",
              DictV([query |-> query, customer_context |-> customer_context])),
         LAMBDA s : Out(s.w, Ret(DictV([customer_context |-> customer_context,
                                        support_response |-> s.r.val.result]))))

_handle_coordinated_query(w, query, customer_id0, intent_analysis) ==
    LET customer_id == ResolveId(customer_id0, intent_analysis)
    IN  IF ~Truthy(customer_id) THEN CoordinatedSupport(w, query, None)
        ELSE Then(Send(w, "data_agent", "get_customer",
                       DictV([customer_id |-> customer_id])),
                  LAMBDA d :
                      IF ~IsDict(d.r.val.result)
                      THEN Out(d.w, Raise(NoAttribute(d.r.val.result, "get")))
                      ELSE CoordinatedSupport(d.w, query,
                                              get(d.r.val.result, "customer")))

\* [c["id"] for c in customers]
CustomerIds(customers_list) ==
    ListV([k \in 1..Len(customers_list.v) |-> customers_list.v[k].v["id"]])

\* step 3 of _handle_complex_query, for the customers step 1 listed
ComplexTickets(w, customers_list, customer_ids) ==
    Then(Send(w, "support_agent", "get_tickets",
              DictV([status |-> StrV("open"), customer_ids |-> customer_ids])),
         LAMBDA s :
             IF ~IsDict(s.r.val.result)
             THEN Out(s.w, Raise(NoAttribute(s.r.val.result, "get")))
             ELSE Out(s.w, Ret(DictV([
                      active_customers_count |-> IntV(Len(customers_list.v)),
                      open_tickets |-> PyGet(s.r.val.result, "tickets", ListV(<<>>)),
                      summary |-> Fmt("Found {} active customers with {} open tickets",
                                      <<IntV(Len(customers_list.v)),
                                        PyGet(s.r.val.result, "count", IntV(0))>>)]))))

\* a variant without the `if not customer_ids: return {"message": ...}` guard
_handle_complex_query_unguarded(w, query, customer_id, intent_analysis) ==
    Then(Send(w, "data_agent", "list_customers",
              DictV([status |-> StrV("active"), limit |-> IntV(50)])),
         LAMBDA d :
             IF ~IsDict(d.r.val.result)
             THEN Out(d.w, Raise(NoAttribute(d.r.val.result, "get")))
             ELSE LET customers_list == PyGet(d.r.val.result, "customers", ListV(<<>>))
                  IN  ComplexTickets(d.w, customers_list, CustomerIds(customers_list)))

_handle_complex_query(w, query, customer_id, intent_analysis) ==
    Then(Send(w, "data_agent", "list_customers",
              DictV([status |-> StrV("active"), limit |-> IntV(50)])),
         LAMBDA d :
             IF ~IsDict(d.r.val.result)
             THEN Out(d.w, Raise(NoAttribute(d.r.val.result, "get")))
             ELSE LET customers_list == PyGet(d.r.val.result, "customers", ListV(<<>>))
                      customer_ids == CustomerIds(customers_list)
                  IN  IF ~Truthy(customer_ids)
                      THEN Out(d.w, Ret(DictV([message |->
                                                 StrV("No active customers found")])))
                      ELSE ComplexTickets(d.w, customers_list, customer_ids))

\* the second call of _handle_escalation, with the result of the first
EscalatedSupport(w, query, urgency_analysis) ==
    Then(Send(w, "support_agent", "handle_support_query",
              DictV([query |-> query,
                     customer_context |-> DictV([escalation |-> BoolV(TRUE),
                                                 urgency |-> urgency_analysis])])),
         LAMBDA s : Out(s.w, Ret(DictV([urgency_analysis |-> urgency_analysis,
                                        support_response |-> s.r.val.result,
                                        escalated |-> BoolV(TRUE)]))))

\* a variant that asks for the support response without analysing the urgency
_handle_escalation_unanalysed(w, query, customer_id, intent_analysis) ==
    EscalatedSupport(w, query, None)

_handle_escalation(w, query, customer_id, intent_analysis) ==
    Then(Send(w, "support_agent", "analyze_urgency", DictV([query |-> query])),
         LAMBDA u : EscalatedSupport(u.w, query, u.r.val.result))

\* `word in intent` for the intent names the classifier answers with
Substring(word, intent) ==
    <<word, intent>> \in {<<"history", StrV("ticket_history")>>,
                          <<"ticket", StrV("ticket_history")>>,
                          <<"ticket", StrV("view_tickets")>>,
                          <<"ticket", StrV("create_ticket")>>}

\* the body of the loop `for intent in intents` for one intent
ProcessIntent(st, intent, query, customer_id) ==
    IF intent = StrV("update_email")
    THEN LET g == generate_content(st.w, "extract_email")
             email == StrV(g.text.raw)
         IN  Then(Send(g.w, "data_agent", "update_customer",
                       DictV([customer_id |-> customer_id, email |-> email])),
                  LAMBDA o : [w |-> o.w,
                              results |-> PySet(st.results, "email_update",
                                                o.r.val.result)])
    ELSE IF Substring("history", intent) \/ Substring("ticket", intent)
    THEN Then(Send(st.w, "data_agent", "get_customer_history",
                   DictV([customer_id |-> customer_id])),
              LAMBDA o : [w |-> o.w,
                          results |-> PySet(st.results, "ticket_history",
                                            o.r.val.result)])
    ELSE st

RECURSIVE ProcessIntents(_, _, _, _, _)
\* the loop `for intent in intents` from its k-th iteration on
ProcessIntents(st, intents, k, query, customer_id) ==
    IF k > Len(intents) THEN st
    ELSE Then(ProcessIntent(st, intents[k], query, customer_id),
              LAMBDA st2 : ProcessIntents(st2, intents, k + 1, query, customer_id))

_handle_multi_intent(w, query, customer_id0, intent_analysis) ==
    LET intents == PyGet(intent_analysis, "intents", ListV(<<>>))
        customer_id == ResolveId(customer_id0, intent_analysis)
    IN  IF intents.tag # "list"
        THEN Out(w, Raise(Fmt("object is not iterable: ", StrV(intents.tag))))
        ELSE Then(ProcessIntents([w |-> w, results |-> EmptyDict], intents.v, 1,
                                 query, customer_id),
                  LAMBDA done : Out(done.w, Ret(DictV([intents_processed |-> intents,
                                                       results |-> done.results]))))

\* a variant that serves a classification of an unknown type as a simple query
Route_lenient(a, query, customer_id) ==
    LET intent_analysis == a.r.val
        query_type == get(intent_analysis, "type")
    IN  IF ~IsDict(intent_analysis)
        THEN Out(a.w, Raise(NoAttribute(intent_analysis, "get")))
        ELSE CASE query_type = StrV("coordinated_support") ->
                    _handle_coordinated_query(a.w, query, customer_id, intent_analysis)
               [] query_type = StrV("complex_multi_agent") ->
                    _handle_complex_query(a.w, query, customer_id, intent_analysis)
               [] query_type = StrV("escalation") ->
                    _handle_escalation(a.w, query, customer_id, intent_analysis)
               [] query_type = StrV("multi_intent") ->
                    _handle_multi_intent(a.w, query, customer_id, intent_analysis)
               [] OTHER ->
                    _handle_simple_query(a.w, query, customer_id, intent_analysis)

\* the branch of route_query for the analysis a
Route(a, query, customer_id) ==
    LET intent_analysis == a.r.val
        query_type == get(intent_analysis, "type")
    IN  IF ~IsDict(intent_analysis)
        THEN Out(a.w, Raise(NoAttribute(intent_analysis, "get")))
        ELSE CASE query_type = StrV("simple_data_retrieval") ->
                    _handle_simple_query(a.w, query, customer_id, intent_analysis)
               [] query_type = StrV("coordinated_support") ->
                    _handle_coordinated_query(a.w, query, customer_id, intent_analysis)
               [] query_type = StrV("complex_multi_agent") ->
                    _handle_complex_query(a.w, query, customer_id, intent_analysis)
               [] query_type = StrV("escalation") ->
                    _handle_escalation(a.w, query, customer_id, intent_analysis)
               [] query_type = StrV("multi_intent") ->
                    _handle_multi_intent(a.w, query, customer_id, intent_analysis)
               [] OTHER ->
                    Out(a.w, Ret(DictV([error |-> Fmt("Unknown query type: ",
                                                      query_type)])))

route_query(w, query, customer_id) ==
    Then(_analyze_intent(w, query, customer_id),
         LAMBDA a : Route(a, query, customer_id))

-----------------------------------------------------------------------------
(* Bounds and the inputs the environment chooses from *)

\* the log holds at most this many entries
MaxLog == 4

Agents == {"data_agent", "support_agent"}

Queries == {StrV("I need help with my account")}

\* the customer_id argument of route_query
CallerIds == {None, IntV(0), IntV(1)}

\* the classifier's customer_id_mentioned
MentionedIds == {None, IntV(2)}

IntentLists ==
    {<<>>, <<StrV("update_email")>>, <<StrV("ticket_history")>>,
     <<StrV("update_email"), StrV("ticket_history")>>,
     <<StrV("view_tickets"), StrV("ticket_history")>>,
     <<StrV("update_email"), StrV("update_email")>>,
     <<StrV("get_customer")>>}

Classification(type, intents, mentioned) ==
    [requires_data_agent |-> BoolV(TRUE), requires_support_agent |-> BoolV(TRUE),
     urgency |-> StrV("medium"), explanation |-> StrV("routing decision"),
     intents |-> ListV(intents), customer_id_mentioned |-> mentioned]
    @@ (IF type = "" THEN <<>> ELSE [type |-> StrV(type)])

\* texts that are not the expected structured mapping
NotJsonText == Text("Sure, here is what I found", FALSE, BadJson)
ListText == Text("[]", FALSE, ListV(<<>>))
NullText == Text("null", FALSE, None)

\* what the Intent Classifier may answer: a fenced JSON mapping with one of the
\* five types, an unknown type or no type at all, or a text of another shape
ClassifierTexts ==
    {Text("classification", TRUE, DictV(Classification(t, <<StrV("get_customer")>>, m))) :
        t \in {"simple_data_retrieval", "coordinated_support"}, m \in MentionedIds}
    \cup {Text("classification", TRUE,
               DictV(Classification(t, <<StrV("get_customer")>>, None))) :
            t \in {"complex_multi_agent", "escalation", "billing_dispute", ""}}
    \cup {Text("classification", TRUE, DictV(Classification("multi_intent", i, m))) :
            i \in IntentLists, m \in MentionedIds}
    \cup {NotJsonText, ListText, NullText}

EmailText == Text("new@example.com", FALSE, BadJson)
ValidText == Text("valid", TRUE,
                  DictV([valid |-> BoolV(TRUE), message |-> StrV("ok"),
                         response |-> StrV("We are on it"), priority |-> StrV("high")]))
InvalidText == Text("invalid", FALSE,
                    DictV([valid |-> BoolV(FALSE), message |-> StrV("missing domain")]))

\* what the Text Generator may answer
GenTexts == {EmailText, ValidText, InvalidText}

\* the answers to the next n Text Generator calls, drawn from the texts T
Oracles(T, n) == [1..n -> T]

Row(name, email, status) ==
    [name |-> StrV(name), email |-> StrV(email), phone |-> StrV("555-0100"),
     status |-> StrV(status), created_at |-> Stamp(0), updated_at |-> Stamp(0)]

SeedCustomers == (1 :> Row("Alice", "alice@example.com", "active"))
                 @@ (2 :> Row("Bob", "bob@example.com", "disabled"))

SeedTickets == <<[id |-> IntV(1), customer_id |-> IntV(1), issue |-> StrV("Cannot log in"),
                  status |-> StrV("open"), priority |-> StrV("high"),
                  created_at |-> Stamp(0)]>>

\* the Data Store the system starts on: the seeded one or an empty one
Stores == {[customers |-> SeedCustomers, tickets |-> SeedTickets],
           [customers |-> <<>>, tickets |-> <<>>]}

\* envelopes sent to an agent directly
Envelope(method, params, to_agent, id) ==
    [method |-> method, params |-> params, to_agent |-> to_agent, id |-> id]

DataEnvelopes ==
    {Envelope(StrV("get_customer"), DictV([customer_id |-> IntV(1)]), "data_agent", None),
     Envelope(StrV("get_customer"), ListV(<<IntV(1)>>), "data_agent", StrV("req-1")),
     Envelope(StrV("update_customer"),
              DictV([customer_id |-> IntV(1), email |-> StrV("a@b.example")]),
              "data_agent", None),
     Envelope(StrV("update_customer"),
              DictV([customer_id |-> IntV(1), status |-> StrV("disabled")]),
              "data_agent", StrV("req-1")),
     Envelope(StrV("update_customer"),
              DictV([customer_id |-> IntV(1), nickname |-> StrV("Al")]),
              "data_agent", None),
     Envelope(StrV("update_customer"), DictV([customer_id |-> IntV(1)]),
              "data_agent", None),
     Envelope(StrV("update_customer"),
              DictV([customer_id |-> IntV(9), name |-> StrV("Zed")]),
              "data_agent", None),
     Envelope(StrV("update_customer"),
              DictV([customer_id |-> IntV(1), status |-> StrV("gone")]),
              "data_agent", None),
     Envelope(StrV("update_customer"),
              DictV([customer_id |-> IntV(1), name |-> StrV("Al"), status |-> StrV("")]),
              "data_agent", None),
     Envelope(StrV("create_ticket"),
              DictV([customer_id |-> IntV(1), issue |-> StrV("Refund")]),
              "data_agent", None),
     Envelope(StrV("delete_customer"), None, "data_agent", StrV("req-2"))}

SupportEnvelopes ==
    {Envelope(StrV("generate_response"),
              DictV([query |-> StrV("hello"), context |-> EmptyDict]),
              "support_agent", None),
     Envelope(StrV("analyze_urgency"), DictV([query |-> StrV("hello")]),
              "support_agent", StrV("req-1")),
     Envelope(StrV("get_tickets"), DictV([state |-> StrV("open")]),
              "support_agent", None),
     Envelope(StrV("get_tickets"), IntV(7), "data_agent", StrV("req-2")),
     Envelope(StrV("get_customer"), DictV([customer_id |-> IntV(1)]),
              "support_agent", None),
     Envelope(None, EmptyDict, "support_agent", None)}

Envelopes(agent) == IF agent = "data_agent" THEN DataEnvelopes ELSE SupportEnvelopes

\* an upper bound on the Text Generator calls handle_message makes for an envelope
EnvelopeGenCalls(e) ==
    IF e.method \in {StrV("generate_response"), StrV("analyze_urgency"),
                     StrV("handle_support_query")} THEN 1
    ELSE IF e.method = StrV("update_customer") /\ IsDict(e.params)
            /\ HasKey(e.params, "email") THEN 1
    ELSE 0

CountOf(q, x) == Cardinality({i \in 1..Len(q) : q[i] = x})

\* an upper bound on the Text Generator calls route_query makes after the
\* classification `text`
RouteGenCalls(text) ==
    LET a == json_loads(StripFences(text))
        type == IF ~a.raised /\ IsDict(a.val) THEN get(a.val, "type") ELSE None
    IN  CASE type = StrV("coordinated_support") -> 1
          [] type = StrV("escalation") -> 2
          [] type = StrV("multi_intent") ->
               2 * CountOf(PyGet(a.val, "intents", ListV(<<>>)).v, StrV("update_email"))
          [] OTHER -> 0

-----------------------------------------------------------------------------
(* agent_cards.py: the capability descriptors and the registry, and the      *)
(* fields the three objects are constructed with                             *)

ROUTER_AGENT_CARD ==
    [agent_id |-> StrV("router_agent"),
     methods |-> <<StrV("route_query"), StrV("coordinate_agents")>>]
DATA_AGENT_CARD ==
    [agent_id |-> StrV("data_agent"),
     methods |-> <<StrV("get_customer"), StrV("list_customers"), StrV("update_customer"),
                   StrV("get_customer_history"), StrV("create_ticket"),
                   StrV("get_tickets")>>]
SUPPORT_AGENT_CARD ==
    [agent_id |-> StrV("support_agent"),
     methods |-> <<StrV("handle_support_query"), StrV("analyze_urgency"),
                   StrV("generate_response")>>]

AGENT_REGISTRY ==
    [router_agent |-> ROUTER_AGENT_CARD, data_agent |-> DATA_AGENT_CARD,
     support_agent |-> SUPPORT_AGENT_CARD]

\* the fields set by __init__ and connect_mcp, with conn[a] for "mcp_client is not
\* None", and the module-level registry
Objects(conn) ==
    [router |-> [agent_id |-> StrV("router_agent"), agent_card |-> ROUTER_AGENT_CARD,
                 data_agent |-> "data_agent", support_agent |-> "support_agent"],
     agents |-> [a \in {"data_agent", "support_agent"} |->
                   [agent_id |-> StrV(a), agent_card |-> AGENT_REGISTRY[a],
                    mcp_client |-> conn[a]]],
     registry |-> AGENT_REGISTRY]

-----------------------------------------------------------------------------
(* Concurrent route_query invocations.  Every await of the source is taken as *)
(* a point where another invocation may run: an invocation constructs an     *)
(* envelope, the agent logs it, runs the operation, logs the response, and   *)
(* the router goes on to its next envelope or returns.                       *)

Invocations == {1, 2}

\* the envelopes of a branch, in order: simple_data_retrieval, and
\* complex_multi_agent, whose second envelope carries the ids the first returned
Programs ==
    {<<[agent |-> "data_agent", method |-> "get_customer",
        params |-> DictV([customer_id |-> IntV(1)])]>>,
     <<[agent |-> "data_agent", method |-> "list_customers",
        params |-> DictV([status |-> StrV("active"), limit |-> IntV(50)])],
       [agent |-> "support_agent", method |-> "get_tickets",
        params |-> DictV([status |-> StrV("open")])]>>}

\* an invocation: pc is its position, todo the envelopes still to issue, message
\* and outcome those of the envelope in hand, customer_ids the local of that name,
\* appended the entries it has logged
Idle == [pc |-> "idle", todo |-> <<>>, message |-> None, outcome |-> None,
         customer_ids |-> None, appended |-> <<>>]

-----------------------------------------------------------------------------
(* The system: two agents, the router, the log and the Data Store *)

World(gen) == [log |-> log, customers |-> customers, tickets |-> tickets, down |-> FALSE,
               uuid |-> uuid, trace |-> <<>>, gen |-> gen, objects |-> Objects(connected)]

NoCall == [op |-> "none", agent |-> "", message |-> None, query |-> None,
           tool |-> "", arguments |-> None, down |-> FALSE, objects |-> None,
           customer_id |-> None, text |-> None, intent |-> None, base |-> 0,
           gen |-> <<>>, pending |-> None,
           ret |-> Ret(None), trace |-> <<>>]

Init ==
    /\ log = <<>>
    /\ \E s \in Stores : customers = s.customers /\ tickets = s.tickets
    /\ connected = [a \in Agents |-> FALSE]
    /\ uuid = 0
    /\ clock = 0
    /\ resp = None
    /\ wire = None
    /\ last = NoCall
    /\ heap = <<>>
    /\ calls = [p \in Invocations |-> Idle]

\* connect_mcp of an agent
ConnectMcp ==
    \E agent \in Agents :
        /\ last = NoCall
        /\ ~connected[agent]
        /\ connected' = [connected EXCEPT ![agent] = TRUE]
        /\ UNCHANGED <<calls, heap, log, customers, tickets, uuid, clock, resp, wire, last>>

\* the caller takes the value its call returned (or the exception it raised)
Return ==
    /\ last # NoCall
    /\ last' = NoCall
    /\ UNCHANGED <<calls, heap, log, customers, tickets, connected, uuid, clock, resp, wire>>

\* a caller builds an envelope and hands it to an agent's handle_message
HandleMessage ==
    \E agent \in Agents : \E e \in Envelopes(agent) :
    \E gen \in Oracles(GenTexts \cup {NullText}, EnvelopeGenCalls(e)) :
        /\ last = NoCall
        /\ Len(log) + 2 <= MaxLog
        /\ LET message == A2AMessage(e.method, e.params, StrV("client"),
                                     StrV(e.to_agent), e.id, uuid, clock)
               w == [World(gen) EXCEPT !.uuid = UuidAfter(e.id, @)]
           IN  \E o \in {handle_message(w, agent, message)} :
                 /\ log' = o.w.log
                 /\ customers' = o.w.customers
                 /\ tickets' = o.w.tickets
                 /\ uuid' = o.w.uuid
                 /\ connected' = [a \in Agents |-> o.w.objects.agents[a].mcp_client]
                 /\ last' = [NoCall EXCEPT !.op = "handle_message", !.agent = agent,
                                           !.objects = o.w.objects,
                                           !.base = Len(log), !.gen = gen,
                                           !.message = message, !.ret = o.r,
                                           !.trace = o.w.trace]
        /\ UNCHANGED <<calls, heap, clock, resp, wire>>

\* a caller calls route_query(query, customer_id)
RouteQuery ==
    \E query \in Queries : \E customer_id \in CallerIds :
    \E text \in ClassifierTexts : \E gen \in Oracles(GenTexts, RouteGenCalls(text)) :
        /\ last = NoCall
        \* one call issues at most two envelopes: four log entries
        /\ Len(log) + 4 <= MaxLog
        /\ \E o \in {route_query(World(<<text>> \o gen), query, customer_id)} :
             /\ log' = o.w.log
             /\ customers' = o.w.customers
             /\ tickets' = o.w.tickets
             /\ uuid' = o.w.uuid
             /\ connected' = [a \in Agents |-> o.w.objects.agents[a].mcp_client]
             /\ last' = [NoCall EXCEPT
                            !.op = "route_query", !.query = query,
                            !.objects = o.w.objects,
                            !.customer_id = customer_id, !.text = text,
                            !.base = Len(log), !.gen = gen,
                            !.intent = _analyze_intent(World(<<text>>), query,
                                                       customer_id).r,
                            !.ret = o.r, !.trace = o.w.trace]
        /\ UNCHANGED <<calls, heap, clock, resp, wire>>

\* the router in front of the two agents
Next == ConnectMcp \/ RouteQuery \/ Return

Spec == Init /\ [][Next]_vars

-----------------------------------------------------------------------------
(* A session: several route_query invocations over one log *)

\* the log of a session holds at most this many entries
MaxSessionLog == 8

\* the classifications of a session: one, one or two, and two envelopes
SessionTexts ==
    {Text("classification", TRUE, DictV(Classification(t, <<StrV("get_customer")>>, None))) :
        t \in {"simple_data_retrieval", "complex_multi_agent", "coordinated_support"}}

\* a caller calls route_query(query, 1) once more
RouteSession ==
    \E query \in Queries : \E text \in SessionTexts :
    \E gen \in Oracles({ValidText}, RouteGenCalls(text)) :
        /\ last = NoCall
        /\ Len(log) + 4 <= MaxSessionLog
        /\ \E o \in {route_query(World(<<text>> \o gen), query, IntV(1))} :
             /\ log' = o.w.log
             /\ customers' = o.w.customers
             /\ tickets' = o.w.tickets
             /\ uuid' = o.w.uuid
             /\ connected' = [a \in Agents |-> o.w.objects.agents[a].mcp_client]
             /\ last' = [NoCall EXCEPT
                            !.op = "route_query", !.query = query,
                            !.objects = o.w.objects,
                            !.customer_id = IntV(1), !.text = text,
                            !.base = Len(log), !.gen = gen,
                            !.intent = _analyze_intent(World(<<text>>), query, IntV(1)).r,
                            !.ret = o.r, !.trace = o.w.trace]
        /\ UNCHANGED <<calls, clock, resp, wire, heap>>

NextSession == ConnectMcp \/ RouteSession \/ Return

SpecSession == Init /\ [][NextSession]_vars

-----------------------------------------------------------------------------
(* The steps of concurrent invocations *)

\* route_query is called and the classification decides the branch
Start(p) ==
    \E program \in Programs :
        /\ calls[p].pc = "idle"
        /\ calls' = [calls EXCEPT ![p] = [Idle EXCEPT !.pc = "construct", !.todo = program]]
        /\ UNCHANGED <<log, customers, tickets, connected, uuid, clock, resp, wire, last, heap>>

\* A2AMessage(method=..., params=..., from_agent=self.agent_id, to_agent=...)
Construct(p) ==
    /\ calls[p].pc = "construct"
    /\ LET e == calls[p].todo[1]
       IN  calls' = [calls EXCEPT ![p].pc = "log_message",
                                  ![p].message =
                                      A2AMessage(StrV(e.method),
                                                 IF e.method = "get_tickets"
                                                 THEN PySet(e.params, "customer_ids",
                                                            calls[p].customer_ids)
                                                 ELSE e.params,
                                                 StrV("router_agent"), StrV(e.agent),
                                                 None, uuid, clock)]
    /\ uuid' = UuidAfter(None, uuid)
    /\ UNCHANGED <<log, customers, tickets, connected, clock, resp, wire, last, heap>>

\* handle_message: a2a_logger.log_message(message)
AgentLogsMessage(p) ==
    /\ calls[p].pc = "log_message"
    /\ log' = log_message(log, calls[p].message)
    /\ calls' = [calls EXCEPT ![p].pc = "operate",
                              ![p].appended = Append(@, log'[Len(log')])]
    /\ UNCHANGED <<customers, tickets, connected, uuid, clock, resp, wire, last, heap>>

\* handle_message: the try block, up to the operation's result or exception
Operate(p) ==
    /\ calls[p].pc = "operate"
    /\ \E o \in {Dispatch(World(<<>>), calls[p].todo[1].agent,
                          calls[p].message.method, calls[p].message.params)} :
         /\ customers' = o.w.customers
         /\ tickets' = o.w.tickets
         /\ calls' = [calls EXCEPT ![p].pc = "log_response", ![p].outcome = o.r]
    /\ UNCHANGED <<log, connected, uuid, clock, resp, wire, last, heap>>

\* the customer ids the router takes from the response to list_customers
IdsOf(response) ==
    IF IsDict(response.result)
    THEN CustomerIds(PyGet(response.result, "customers", ListV(<<>>)))
    ELSE None

\* handle_message: the response is built, logged and returned; the router issues
\* its next envelope, or returns (at the end of the branch, with no active
\* customers, or by the exception a null result causes)
AgentLogsResponse(p) ==
    /\ calls[p].pc = "log_response"
    /\ \E response \in {Respond(calls[p].todo[1].agent, calls[p].message,
                                 [r |-> calls[p].outcome])} :
         /\ log' = log_response(log, response)
         /\ calls' = [calls EXCEPT ![p].pc = IF /\ Len(calls[p].todo) > 1
                                                /\ Truthy(IdsOf(response))
                                             THEN "construct" ELSE "done",
                                   ![p].todo = Tail(@),
                                   ![p].customer_ids = IdsOf(response),
                                   ![p].appended = Append(@, log'[Len(log')])]
    /\ UNCHANGED <<customers, tickets, connected, uuid, clock, resp, wire, last, heap>>

NextConcurrent ==
    \/ ConnectMcp
    \/ \E p \in Invocations :
          Start(p) \/ Construct(p) \/ AgentLogsMessage(p) \/ Operate(p)
                   \/ AgentLogsResponse(p)

SpecConcurrent == Init /\ [][NextConcurrent]_vars

-----------------------------------------------------------------------------
(* A route_query invocation from its call to its completion.  The Intent      *)
(* Classifier, the Text Generator and the Data Store answer every call, and   *)
(* the event loop runs the coroutine on: completion is weakly fair.  Nothing  *)
(* else runs between the call and the completion, so what the invocation will *)
(* have done is determined at the call; it is held in pending until then.     *)

\* route_query is called: the coroutine is created with its arguments
CallRoute ==
    \E query \in Queries : \E customer_id \in CallerIds :
    \E text \in ClassifierTexts : \E gen \in Oracles(GenTexts, RouteGenCalls(text)) :
        /\ last = NoCall
        /\ Len(log) + 4 <= MaxLog
        /\ last' = [NoCall EXCEPT
                       !.op = "running", !.query = query,
                       !.customer_id = customer_id, !.text = text,
                       !.base = Len(log), !.gen = gen,
                       !.intent = _analyze_intent(World(<<text>>), query, customer_id).r,
                       !.pending = route_query(World(<<text>> \o gen), query, customer_id)]
        /\ UNCHANGED <<calls, log, customers, tickets, connected, uuid, heap, clock,
                       resp, wire>>

\* route_query runs to its return statement or to the exception that ends it
CompleteRoute ==
    /\ last.op = "running"
    /\ log' = last.pending.w.log
    /\ customers' = last.pending.w.customers
    /\ tickets' = last.pending.w.tickets
    /\ uuid' = last.pending.w.uuid
    /\ connected' = [a \in Agents |-> last.pending.w.objects.agents[a].mcp_client]
    /\ last' = [last EXCEPT !.op = "route_query", !.pending = None,
                            !.objects = last.pending.w.objects,
                            !.ret = last.pending.r, !.trace = last.pending.w.trace]
    /\ UNCHANGED <<calls, heap, clock, resp, wire>>

\* the caller takes the result of the completed invocation
NextRun == ConnectMcp \/ CallRoute \/ CompleteRoute \/ (last.op = "route_query" /\ Return)

SpecRun == Init /\ [][NextRun]_vars /\ WF_vars(CompleteRoute)

\* the two agents, called directly
NextAgents == ConnectMcp \/ HandleMessage \/ Return

SpecAgents == Init /\ [][NextAgents]_vars

-----------------------------------------------------------------------------
(* The Communication Log on its own: any interleaving of log_message,       *)
(* log_response and clear                                                   *)

\* uuid4() is drawn at most this many times
MaxUuid == 2

\* the request ids callers supply
RequestIds == {StrV("req-1"), StrV("req-2")}

LogMessage ==
    \E id \in {None, StrV("req-1")} :
        /\ Len(log) < MaxLog
        /\ UuidAfter(id, uuid) <= MaxUuid
        /\ log' = log_message(log, A2AMessage(StrV("get_customer"),
                                              DictV([customer_id |-> IntV(1)]),
                                              StrV("router_agent"), StrV("data_agent"),
                                              id, uuid, clock))
        /\ uuid' = UuidAfter(id, uuid)
        /\ UNCHANGED <<calls, heap, customers, tickets, connected, clock, resp, wire, last>>

LogResponse ==
    \E id \in RequestIds :
    \E outcome \in {[result |-> DictV([success |-> BoolV(TRUE)]), error |-> None],
                    [result |-> None, error |-> InternalError(StrV("boom"))]} :
        /\ Len(log) < MaxLog
        /\ log' = log_response(log, A2AResponse(outcome.result, outcome.error, id,
                                                StrV("data_agent"), clock))
        /\ UNCHANGED <<calls, heap, customers, tickets, connected, uuid, clock, resp, wire, last>>

\* A2ALogger.clear
Clear ==
    /\ log # <<>>
    /\ log' = <<>>
    /\ UNCHANGED <<calls, heap, customers, tickets, connected, uuid, clock, resp, wire, last>>

NextLogger == LogMessage \/ LogResponse \/ Clear

SpecLogger == Init /\ [][NextLogger]_vars

-----------------------------------------------------------------------------
(* The log and the objects it refers to.  Python passes dicts by reference:  *)
(* to_dict builds a new outer mapping whose "params" / "result" value is the *)
(* very object the envelope holds.  Here params and result are addresses in  *)
(* heap, so that a later mutation of the object is seen through every        *)
(* reference to it.                                                          *)

\* the number of entries logged while their envelopes are still held
MaxHeld == 2

Ref(n) == [tag |-> "ref", v |-> n]

\* what a reader of a value sees: the object behind an address
Deref(h, x) == IF x.tag = "ref" THEN h[x.v] ELSE x

\* an entry as a caller of get_all_messages / get_conversation reads it
Seen(h, entry) ==
    [type |-> entry.type,
     data |-> DictV([k \in DOMAIN entry.data.v |-> Deref(h, entry.data.v[k])])]

\* A2ALogger.get_all_messages
get_all_messages(lg) == lg

\* a caller builds a request around a fresh params object and logs it
LogHeldMessage ==
    \E id \in {None, StrV("req-1")} :
        /\ Len(log) < MaxHeld
        /\ UuidAfter(id, uuid) <= MaxUuid
        /\ heap' = Append(heap, DictV([customer_id |-> IntV(1)]))
        /\ resp' = A2AMessage(StrV("get_customer"), Ref(Len(heap) + 1),
                              StrV("router_agent"), StrV("data_agent"), id, uuid, clock)
        /\ log' = log_message(log, resp')
        /\ uuid' = UuidAfter(id, uuid)
        /\ last' = [NoCall EXCEPT !.op = "log_message"]
        /\ UNCHANGED <<calls, customers, tickets, connected, clock, wire>>

\* an agent builds a response around a fresh result object and logs it
LogHeldResponse ==
    \E id \in RequestIds :
        /\ Len(log) < MaxHeld
        /\ heap' = Append(heap, DictV([success |-> BoolV(TRUE)]))
        /\ resp' = A2AResponse(Ref(Len(heap) + 1), None, id, StrV("data_agent"), clock)
        /\ log' = log_response(log, resp')
        /\ last' = [NoCall EXCEPT !.op = "log_response"]
        /\ UNCHANGED <<calls, customers, tickets, connected, uuid, clock, wire>>

\* the holder of the request mutates its params object: message.params["customer_id"] = c
MutateParams ==
    \E c \in {IntV(1), IntV(2)} :
        /\ resp # None
        /\ "params" \in DOMAIN resp
        /\ heap' = [heap EXCEPT ![resp.params.v] = PySet(@, "customer_id", c)]
        /\ last' = [NoCall EXCEPT !.op = "mutate"]
        /\ UNCHANGED <<calls, log, customers, tickets, connected, uuid, clock, resp, wire>>

\* the holder of the response mutates its result object: response.result["success"] = b
MutateResult ==
    \E b \in BOOLEAN :
        /\ resp # None
        /\ "result" \in DOMAIN resp
        /\ heap' = [heap EXCEPT ![resp.result.v] = PySet(@, "success", BoolV(b))]
        /\ last' = [NoCall EXCEPT !.op = "mutate"]
        /\ UNCHANGED <<calls, log, customers, tickets, connected, uuid, clock, resp, wire>>

\* a caller reads the log: the entries of one request id, all entries, or the counts
ReadLog ==
    \E op \in {"get_conversation", "get_all_messages", "summary"} : \E id \in RequestIds :
        /\ last' = [NoCall EXCEPT
                       !.op = op,
                       !.message = IF op = "get_conversation" THEN id ELSE None,
                       !.ret = Ret(CASE op = "get_conversation" -> get_conversation(log, id)
                                     [] op = "get_all_messages" -> get_all_messages(log)
                                     [] op = "summary" -> summary(log))]
        /\ UNCHANGED <<calls, log, customers, tickets, connected, uuid, clock, resp, wire, heap>>

\* A2ALogger.clear, dropping the objects no entry refers to any more
ClearHeld ==
    /\ log # <<>>
    /\ log' = <<>>
    /\ heap' = <<>>
    /\ resp' = None
    /\ last' = [NoCall EXCEPT !.op = "clear"]
    /\ UNCHANGED <<calls, customers, tickets, connected, uuid, clock, wire>>

NextSnapshot ==
    LogHeldMessage \/ LogHeldResponse \/ MutateParams \/ MutateResult \/ ReadLog \/ ClearHeld

SpecSnapshot == Init /\ [][NextSnapshot]_vars

-----------------------------------------------------------------------------
(* The Response Envelope on its own: the constructor, to_dict and from_dict *)

\* datetime.now() advances at most this far
MaxClock == 1

Results == {None, EmptyDict, DictV([success |-> BoolV(TRUE)])}
Errors == {None, EmptyDict, InternalError(StrV("boom"))}

\* mappings handed to from_dict that to_dict did not produce
ForeignMaps ==
    {EmptyDict,
     DictV([id |-> StrV("req-1"), result |-> DictV([success |-> BoolV(TRUE)]),
            error |-> InternalError(StrV("boom"))]),
     DictV([id |-> StrV("req-2"), from_agent |-> StrV("data_agent"),
            error |-> InternalError(StrV("boom")), timestamp |-> Stamp(0)])}

Tick ==
    /\ clock < MaxClock
    /\ clock' = clock + 1
    /\ UNCHANGED <<calls, heap, log, customers, tickets, connected, uuid, resp, wire, last>>

\* A2AResponse(result=..., error=..., id=..., from_agent=...)
NewResponse ==
    \E result \in Results : \E error \in Errors :
    \E id \in {None, StrV("req-1")} : \E from_agent \in {None, StrV("data_agent")} :
        /\ resp' = A2AResponse(result, error, id, from_agent, clock)
        /\ last' = [NoCall EXCEPT !.op = "A2AResponse"]
        /\ UNCHANGED <<calls, heap, log, customers, tickets, connected, uuid, clock, wire>>

\* resp.to_dict()
ToDict ==
    /\ resp # None
    /\ wire' = [of |-> resp, data |-> Response_to_dict(resp)]
    /\ last' = [NoCall EXCEPT !.op = "to_dict"]
    /\ UNCHANGED <<calls, heap, log, customers, tickets, connected, uuid, clock, resp>>

\* A2AResponse.from_dict(data), for the mapping last serialized or a foreign one
FromDict ==
    \E data \in ForeignMaps \cup (IF wire = None THEN {} ELSE {wire.data}) :
        /\ resp' = Response_from_dict(data, clock)
        /\ last' = [NoCall EXCEPT !.op = "from_dict", !.message = data]
        /\ UNCHANGED <<calls, heap, log, customers, tickets, connected, uuid, clock, wire>>

NextEnvelope == Tick \/ NewResponse \/ ToDict \/ FromDict

SpecEnvelope == Init /\ [][NextEnvelope]_vars

-----------------------------------------------------------------------------
(* Request Envelopes: construction, to_dict and from_dict.  resp holds the   *)
(* envelope last constructed or deserialized, wire the mapping last          *)
(* serialized together with the envelope it came from.                       *)

RequestIds0 == {None, StrV(""), IntV(0), StrV("req-1")}

\* request mappings handed to from_dict that to_dict did not produce
ForeignRequests ==
    {DictV([method |-> StrV("get_customer"), params |-> EmptyDict,
            from_agent |-> StrV("client"), to_agent |-> StrV("data_agent"),
            id |-> id]) : id \in RequestIds0 \ {None}}
    \cup {DictV([method |-> StrV("get_customer"), params |-> EmptyDict,
                 from_agent |-> StrV("client"), to_agent |-> StrV("data_agent"),
                 id |-> StrV("req-2"), timestamp |-> Stamp(0)]),
          DictV([method |-> StrV("get_customer"), params |-> EmptyDict,
                 from_agent |-> StrV("client"), to_agent |-> StrV("data_agent")]),
          DictV([method |-> StrV("get_customer"), id |-> StrV("req-1")])}

\* A2AMessage(method, params, from_agent, to_agent, id)
NewMessage ==
    \E method \in {None, StrV("get_customer")} :
    \E params \in {None, DictV([customer_id |-> IntV(1)])} :
    \E to_agent \in {StrV("data_agent"), StrV("support_agent")} :
    \E id \in RequestIds0 :
        /\ UuidAfter(id, uuid) <= MaxUuid
        /\ resp' = A2AMessage(method, params, StrV("client"), to_agent, id, uuid, clock)
        /\ uuid' = UuidAfter(id, uuid)
        /\ last' = [NoCall EXCEPT !.op = "A2AMessage"]
        /\ UNCHANGED <<calls, heap, log, customers, tickets, connected, clock, wire>>

\* msg.to_dict()
MessageToDict ==
    /\ resp # None
    /\ wire' = [of |-> resp, data |-> Message_to_dict(resp)]
    /\ last' = [NoCall EXCEPT !.op = "to_dict"]
    /\ UNCHANGED <<calls, heap, log, customers, tickets, connected, uuid, clock, resp>>

\* A2AMessage.from_dict(data), for the mapping last serialized or a foreign one
MessageFromDict ==
    \E data \in ForeignRequests \cup (IF wire = None THEN {} ELSE {wire.data}) :
        /\ UuidAfter(PyGet(data, "id", None), uuid) <= MaxUuid
        /\ \E r \in {Message_from_dict(data, uuid, clock)} :
             /\ resp' = IF r.raised THEN resp ELSE r.val
             /\ uuid' = IF r.raised THEN uuid ELSE UuidAfter(PyGet(data, "id", None), uuid)
             /\ last' = [NoCall EXCEPT !.op = "from_dict", !.message = data, !.ret = r]
        /\ UNCHANGED <<calls, heap, log, customers, tickets, connected, clock, wire>>

NextMessage == Tick \/ NewMessage \/ MessageToDict \/ MessageFromDict

SpecMessage == Init /\ [][NextMessage]_vars

-----------------------------------------------------------------------------
(* The Tool Gateway called directly *)

MaxTickets == 2

\* the six tools of call_tool and two names it does not know
ToolNames == {"get_customer", "list_customers", "update_customer", "create_ticket",
              "get_customer_history", "get_tickets", "delete_customer", "refund"}

\* arguments mappings: complete, incomplete, naming an unknown customer, breaking
\* a constraint of the Data Store, or holding a value that cannot be bound
ArgumentMaps ==
    {EmptyDict,
     DictV([customer_id |-> IntV(1)]),
     DictV([customer_id |-> IntV(9)]),
     DictV([customer_id |-> ListV(<<>>)]),
     DictV([customer_id |-> IntV(1), issue |-> StrV("Cannot log in")]),
     DictV([customer_id |-> IntV(1), issue |-> StrV("Refund"), priority |-> StrV("urgent")]),
     DictV([customer_id |-> IntV(1), issue |-> None]),
     DictV([customer_id |-> IntV(9), issue |-> StrV("Refund")]),
     DictV([customer_id |-> IntV(1), email |-> StrV("new@example.com")]),
     DictV([customer_id |-> IntV(2), status |-> StrV("gone")]),
     DictV([status |-> StrV("open"), limit |-> StrV("ten")])}

\* a caller invokes call_tool while the Data Store is available or not
CallTool ==
    \E tool_name \in ToolNames : \E arguments \in ArgumentMaps : \E down \in BOOLEAN :
        /\ last = NoCall
        /\ Len(tickets) < MaxTickets
        /\ \E o \in {call_tool([World(<<>>) EXCEPT !.down = down], tool_name, arguments)} :
             /\ customers' = o.w.customers
             /\ tickets' = o.w.tickets
             /\ last' = [NoCall EXCEPT !.op = "call_tool", !.tool = tool_name,
                                       !.arguments = arguments, !.down = down,
                                       !.ret = o.r, !.trace = o.w.trace]
        /\ UNCHANGED <<calls, heap, log, connected, uuid, clock, resp, wire>>

NextGateway == CallTool \/ Return

SpecGateway == Init /\ [][NextGateway]_vars

-----------------------------------------------------------------------------
(* Properties *)

\* the faults that left the dispatched operation during the last call
Faults == {last.trace[i][2] : i \in {j \in 1..Len(last.trace) : last.trace[j][1] = "raise"}}

\* C1: whatever envelope an agent's handle_message is given and whatever fault the
\* dispatched operation raises, handle_message returns instead of raising, and
\* what it returns is an error envelope with code -32603 and the fault's message.
C1_FaultBecomesErrorEnvelope ==
    last.op = "handle_message" =>
        /\ ~last.ret.raised
        /\ \A exc \in Faults : /\ last.ret.val.error = InternalError(exc)
                               /\ last.ret.val.result = None

C1_Witness ==
    /\ last.op = "handle_message"
    /\ JSONDecodeError \in Faults
    /\ ~last.ret.raised
    /\ last.ret.val.error = InternalError(JSONDecodeError)

\* C2: the response handle_message returns, on success and on error alike, carries
\* the id of the request it answers and the id of the agent that handled it.
C2_ResponseEchoesRequest ==
    last.op = "handle_message" /\ ~last.ret.raised =>
        /\ last.ret.val.id = last.message.id
        /\ last.ret.val.from_agent = StrV(last.agent)

C2_Witness ==
    /\ last.op = "handle_message"
    /\ last.agent = "support_agent"
    /\ last.message.to_agent = StrV("data_agent")
    /\ last.message.id = StrV("req-2")
    /\ last.ret.val.error # None
    /\ last.ret.val.id = StrV("req-2")

\* C3: the mapping to_dict produces holds exactly one of the keys result and
\* error, and when the envelope's error is set the result key is absent.
C3_ExactlyOneKeySerialized ==
    wire # None =>
        /\ HasKey(wire.data, "result") # HasKey(wire.data, "error")
        /\ wire.of.error # None => ~HasKey(wire.data, "result")

\* C4: an envelope in memory never has both result and error populated, and never
\* neither of them.
C4_ExactlyOnePopulated ==
    resp # None => ((resp.error # None) # (resp.result # None))

\* the positions of the log whose payload carries the id
Matching(id) == {i \in 1..Len(log) : log[i].data.v["id"] = id}

\* C5: get_conversation(id) is the log's entries with that id, all of them and
\* no other, in the order they were appended.
C5_ConversationIsMatchingSubsequence ==
    \A id \in RequestIds \cup {None, Uuid(1), Uuid(2), Uuid(3)} :
        LET got == get_conversation(log, id)
            at == SortedSeq(Matching(id))
        IN  /\ Len(got) = Cardinality(Matching(id))
            /\ \A k \in 1..Len(got) : got[k] = log[at[k]]

C5_Witness ==
    /\ Len(log) = MaxLog
    /\ Matching(StrV("req-1")) = {1, 3, MaxLog}
    /\ log[1].type = "response" /\ log[3].type = "message"
    /\ Len(get_conversation(log, StrV("req-1"))) = 3

\* C6: whatever was logged and cleared, the summary's total is the number of
\* messages plus the number of responses, and the errors are among the responses.
C6_SummaryCountsAddUp ==
    LET s == summary(log)
    IN  /\ s.total_communications = s.messages_sent + s.responses_received
        /\ s.errors <= s.responses_received

C6_Witness ==
    /\ summary(log).messages_sent = 1
    /\ summary(log).responses_received = 2
    /\ summary(log).errors = 1
    /\ uuid = MaxUuid

\* the last call was route_query and the classification it went on with is this type
Classified(type) ==
    /\ last.op = "route_query"
    /\ ~last.intent.raised
    /\ IsDict(last.intent.val)
    /\ get(last.intent.val, "type") = StrV(type)

Delivered == {i \in 1..Len(last.trace) : last.trace[i][1] = "deliver"}

\* C7: a route_query classified simple_data_retrieval, with no customer id from
\* the caller and none mentioned, returns the "Customer ID required" error, delivers
\* no envelope and leaves the log as it was.
C7_NoIdNoDelivery ==
    [][(/\ last.op = "none"
        /\ Classified("simple_data_retrieval")'
        /\ last'.customer_id = None
        /\ get(last'.intent.val, "customer_id_mentioned") = None)
       => /\ last'.ret = Ret(DictV([error |->
                                      StrV("Customer ID required but not provided")]))
          /\ Delivered' = {}
          /\ log' = log]_vars

C7_Witness ==
    /\ Classified("simple_data_retrieval")
    /\ last.customer_id = None
    /\ get(last.intent.val, "customer_id_mentioned") = None
    /\ last.text \in ClassifierTexts \ {NotJsonText}
    /\ last.ret = Ret(DictV([error |-> StrV("Customer ID required but not provided")]))
    /\ connected["data_agent"]
    /\ customers # <<>>

\* the text is not the expected structured mapping
Unparseable(text) ==
    LET parsed == json_loads(StripFences(text))
    IN  parsed.raised \/ ~IsDict(parsed.val)

\* C8: when the classifier's text is not JSON, or is JSON but not a mapping,
\* route_query does not raise and goes on with the fallback classification.
C8_FallbackOnUnparseable ==
    last.op = "route_query" /\ Unparseable(last.text) =>
        /\ ~last.ret.raised
        /\ last.intent = Ret(Fallback(last.customer_id))

\* C9: for a classification that is a mapping, whatever the agents answer,
\* route_query returns a mapping: it neither raises nor returns null.
C9_RouteReturnsMapping ==
    last.op = "route_query" /\ ~Unparseable(last.text) =>
        /\ ~last.ret.raised
        /\ IsDict(last.ret.val)

\* the mapping, or a mapping nested in it up to two levels down, has the key error
CarriesError(d) ==
    \E k \in DOMAIN d.v :
        /\ IsDict(d.v[k])
        /\ \/ HasKey(d.v[k], "error")
           \/ \E j \in DOMAIN d.v[k].v : IsDict(d.v[k].v[j]) /\ HasKey(d.v[k].v[j], "error")

\* C10: in a multi-step branch, when a sub-call comes back as an error envelope,
\* route_query returns a mapping that carries the failure as a nested {error: ...}.
C10_FailureNestedInResult ==
    /\ \E t \in {"coordinated_support", "complex_multi_agent", "escalation",
                 "multi_intent"} : Classified(t)
    /\ Faults # {}
    => /\ ~last.ret.raised
       /\ IsDict(last.ret.val)
       /\ CarriesError(last.ret.val)

\* the five types route_query has a branch for
KnownTypes == {StrV("simple_data_retrieval"), StrV("coordinated_support"),
               StrV("complex_multi_agent"), StrV("escalation"), StrV("multi_intent")}

\* the last call was route_query, on a classification that is a mapping of a type
\* outside the five (a missing type reads as None)
UnknownType ==
    /\ last.op = "route_query"
    /\ ~last.intent.raised
    /\ IsDict(last.intent.val)
    /\ get(last.intent.val, "type") \notin KnownTypes

\* C11: on a classification whose type is none of the five, or is missing,
\* route_query returns {error: "Unknown query type: <type>"} with that type,
\* delivers no envelope and leaves the log as it was.
C11_UnknownTypeRefused ==
    [][(last.op = "none" /\ UnknownType')
       => /\ last'.ret = Ret(DictV([error |-> Fmt("Unknown query type: ",
                                                  get(last'.intent.val, "type"))]))
          /\ Delivered' = {}
          /\ log' = log]_vars

C11_Witness ==
    /\ UnknownType
    /\ get(last.intent.val, "type") = None
    /\ last.customer_id = IntV(1)
    /\ connected["data_agent"]
    /\ last.ret = Ret(DictV([error |-> Fmt("Unknown query type: ", None)]))

\* the log entries the last call caused, in order
Issued == SubSeq(log, last.base + 1, Len(log))

\* the agents the last call delivered an envelope to, in order
DeliveredTo == SelectSeq(last.trace, LAMBDA ev : ev[1] = "deliver")

\* the k-th entry the last call caused is a success response, and this is its result
ResultAt(k) == Issued[k].data.v["result"]
IsResultAt(k) ==
    /\ Len(Issued) >= k
    /\ Issued[k].type = "response"
    /\ HasKey(Issued[k].data, "result")
    /\ IsDict(ResultAt(k))

\* C12: in the complex_multi_agent branch, when list_customers(active) comes back
\* with no customer, route_query returns {message: "No active customers found"}
\* and no envelope reaches the Support Agent during the call.
C12_NoCustomersNoSupportCall ==
    /\ Classified("complex_multi_agent")
    /\ IsResultAt(2)
    /\ PyGet(ResultAt(2), "customers", ListV(<<>>)) = ListV(<<>>)
    => /\ last.ret = Ret(DictV([message |-> StrV("No active customers found")]))
       /\ \A i \in 1..Len(DeliveredTo) : DeliveredTo[i][2] # "support_agent"
       /\ Len(Issued) = 2

C12_Witness ==
    /\ Classified("complex_multi_agent")
    /\ IsResultAt(2)
    /\ Issued[1].data.v["method"] = StrV("list_customers")
    /\ Issued[1].data.v["params"] = DictV([status |-> StrV("active"), limit |-> IntV(50)])
    /\ ResultAt(2).v["customers"] = ListV(<<>>)
    /\ connected["support_agent"]
    /\ last.ret = Ret(DictV([message |-> StrV("No active customers found")]))

\* the tools the Tool Gateway was asked for during the last call, in order
ToolsCalled == SelectSeq(last.trace, LAMBDA ev : ev[1] = "tool")

\* the last call handed the Data Agent an update_customer envelope with an email,
\* and the Text Generator's validation answer says the email is not valid
InvalidEmailUpdate ==
    /\ last.op = "handle_message"
    /\ last.agent = "data_agent"
    /\ last.message.method = StrV("update_customer")
    /\ IsDict(last.message.params)
    /\ DOMAIN last.message.params.v \subseteq {"customer_id", "name", "email",
                                               "phone", "status"}
    /\ Truthy(get(last.message.params, "email"))
    /\ Len(last.gen) >= 1
    /\ LET validation == json_loads(StripFences(last.gen[1]))
       IN  /\ ~validation.raised
           /\ IsDict(validation.val)
           /\ ~Truthy(get(validation.val, "valid"))

\* C13: an update_customer request whose email the Text Generator judges invalid
\* is answered {error: "Invalid email: <reason>", customer_id}; the gateway's
\* update_customer is not invoked and the Data Store is as it was.
C13_InvalidEmailNotWritten ==
    [][(last.op = "none" /\ InvalidEmailUpdate')
       => /\ ~last'.ret.raised
          /\ last'.ret.val.error = None
          /\ last'.ret.val.result =
                DictV([error |-> Fmt("Invalid email: ",
                                     get(json_loads(StripFences(last'.gen[1])).val,
                                         "message")),
                       customer_id |-> get(last'.message.params, "customer_id")])
          /\ ToolsCalled' = <<>>
          /\ customers' = customers
          /\ tickets' = tickets]_vars

C13_Witness ==
    /\ InvalidEmailUpdate
    /\ connected["data_agent"]
    /\ 1 \in DOMAIN customers
    /\ last.ret.val.result = DictV([error |-> Fmt("Invalid email: ", StrV("missing domain")),
                                    customer_id |-> IntV(1)])

\* the customer id the last route_query call had available
AvailableId == ResolveId(last.customer_id, last.intent.val)

\* what the Tool Gateway's get_customer answers for the id in the current store
GatewayCustomer(c) ==
    call_tool(World(<<>>), "get_customer", DictV([customer_id |-> c])).r.val

\* the data of the k-th entry the last call caused
Sent(k) == Issued[k].data.v

\* C14: a route_query classified simple_data_retrieval with a customer id c
\* available delivers exactly one envelope, get_customer {customer_id: c} from
\* router_agent to data_agent, and returns the gateway's get_customer payload for c.
C14_SimpleQueryReturnsPayload ==
    Classified("simple_data_retrieval") /\ Truthy(AvailableId) =>
        /\ DeliveredTo = << <<"deliver", "data_agent">> >>
        /\ Len(Issued) = 2
        /\ Issued[1].type = "message"
        /\ Sent(1)["method"] = StrV("get_customer")
        /\ Sent(1)["params"] = DictV([customer_id |-> AvailableId])
        /\ Sent(1)["from_agent"] = StrV("router_agent")
        /\ Sent(1)["to_agent"] = StrV("data_agent")
        /\ last.ret = Ret(GatewayCustomer(AvailableId))

\* C15: the log entries one route_query call causes alternate message, response,
\* message, response, and each response carries the id of the message just before
\* it: an envelope is issued only once the previous one has been answered.
C15_CallsAreSequential ==
    last.op = "route_query" =>
        /\ Len(Issued) % 2 = 0
        /\ \A k \in 1..Len(Issued) :
              IF k % 2 = 1
              THEN Issued[k].type = "message"
              ELSE /\ Issued[k].type = "response"
                   /\ Sent(k)["id"] = Sent(k - 1)["id"]

C15_Witness ==
    /\ Classified("complex_multi_agent")
    /\ Len(Issued) = 4
    /\ Sent(1)["to_agent"] = StrV("data_agent")
    /\ Sent(2)["from_agent"] = StrV("data_agent")
    /\ Sent(3)["to_agent"] = StrV("support_agent")
    /\ Sent(4)["from_agent"] = StrV("support_agent")
    /\ Sent(2)["id"] = Sent(1)["id"]
    /\ Sent(4)["id"] = Sent(3)["id"]
    /\ Sent(3)["id"] # Sent(1)["id"]

\* response.result of the k-th entry the last call caused: None on an error response
ResultOf(k) == IF "result" \in DOMAIN Sent(k) THEN Sent(k)["result"] ELSE None

\* C16: the escalation branch issues exactly two envelopes, both to the Support
\* Agent: analyze_urgency with the query, then handle_support_query with
\* customer_context {escalation: true, urgency: <result of the first>}; the mapping
\* returned has urgency_analysis, support_response and escalated = true.
C16_EscalationTwoSteps ==
    Classified("escalation") =>
        /\ DeliveredTo = << <<"deliver", "support_agent">>, <<"deliver", "support_agent">> >>
        /\ Len(Issued) = 4
        /\ Sent(1)["method"] = StrV("analyze_urgency")
        /\ Sent(1)["params"] = DictV([query |-> last.query])
        /\ Sent(1)["to_agent"] = StrV("support_agent")
        /\ Sent(3)["method"] = StrV("handle_support_query")
        /\ Sent(3)["params"] =
              DictV([query |-> last.query,
                     customer_context |-> DictV([escalation |-> BoolV(TRUE),
                                                 urgency |-> ResultOf(2)])])
        /\ Sent(3)["to_agent"] = StrV("support_agent")
        /\ last.ret = Ret(DictV([urgency_analysis |-> ResultOf(2),
                                 support_response |-> ResultOf(4),
                                 escalated |-> BoolV(TRUE)]))

C16_Witness ==
    /\ Classified("escalation")
    /\ Len(Issued) = 4
    /\ IsDict(ResultOf(2))
    /\ ResultOf(2).v["priority"] = StrV("high")
    /\ Sent(3)["params"].v["customer_context"].v["urgency"] = ResultOf(2)
    /\ IsDict(ResultOf(4))
    /\ last.ret.val.v["escalated"] = BoolV(TRUE)

\* the envelopes the last call delivered to an agent
CallsTo(agent) == {i \in 1..Len(DeliveredTo) : DeliveredTo[i][2] = agent}

\* the customer record in the k-th entry, a get_customer response: None when the
\* customer was not found or the call failed
RecordAt(k) == IF IsDict(ResultOf(k)) THEN get(ResultOf(k), "customer") ELSE None

\* C17: the coordinated_support branch calls handle_support_query exactly once in
\* every case.  With a customer id known, get_customer is called once before it and
\* the record it returned is the customer_context sent and returned; with no id
\* known the Data Agent is not contacted and customer_context is null.
C17_CoordinatedAlwaysAsksSupport ==
    Classified("coordinated_support") =>
        /\ Cardinality(CallsTo("support_agent")) = 1
        /\ ~last.ret.raised
        /\ IF Truthy(AvailableId)
           THEN /\ DeliveredTo = << <<"deliver", "data_agent">>,
                                    <<"deliver", "support_agent">> >>
                /\ Sent(1)["method"] = StrV("get_customer")
                /\ Sent(1)["params"] = DictV([customer_id |-> AvailableId])
                /\ Sent(3)["method"] = StrV("handle_support_query")
                /\ Sent(3)["params"] = DictV([query |-> last.query,
                                              customer_context |-> RecordAt(2)])
                /\ last.ret.val.v["customer_context"] = RecordAt(2)
           ELSE /\ DeliveredTo = << <<"deliver", "support_agent">> >>
                /\ Sent(1)["method"] = StrV("handle_support_query")
                /\ Sent(1)["params"] = DictV([query |-> last.query,
                                              customer_context |-> None])
                /\ last.ret.val.v["customer_context"] = None

\* the customers list in the k-th entry, a list_customers response
ListedAt(k) == PyGet(ResultAt(k), "customers", ListV(<<>>)).v

\* C18: in the complex_multi_agent branch with at least one active customer listed,
\* the get_tickets envelope to the Support Agent has status open and customer_ids
\* the ids of the listed customers in order; the result's active_customers_count
\* is the number listed and open_tickets is the tickets list of the Support Agent's
\* result.
C18_ComplexMergesTickets ==
    Classified("complex_multi_agent") /\ IsResultAt(2) /\ ListedAt(2) # <<>> =>
        /\ Len(Issued) = 4
        /\ Sent(3)["method"] = StrV("get_tickets")
        /\ Sent(3)["to_agent"] = StrV("support_agent")
        /\ Sent(3)["params"] =
              DictV([status |-> StrV("open"),
                     customer_ids |-> ListV([k \in 1..Len(ListedAt(2)) |->
                                               ListedAt(2)[k].v["id"]])])
        /\ ~last.ret.raised
        /\ IsResultAt(4)
        /\ last.ret.val.v["active_customers_count"] = IntV(Len(ListedAt(2)))
        /\ last.ret.val.v["open_tickets"] = PyGet(ResultAt(4), "tickets", ListV(<<>>))

\* the intents of the classification that make the multi_intent loop issue a call
Acting ==
    SelectSeq(last.intent.val.v["intents"].v,
              LAMBDA i : i = StrV("update_email") \/ Substring("history", i)
                                                  \/ Substring("ticket", i))

\* C19: in the multi_intent branch the router walks the intent list in order,
\* issuing update_customer to the Data Agent for each update_email intent and
\* get_customer_history for each other intent containing "history" or "ticket",
\* and the result of every sub-call issued is present in the returned results
\* mapping.
C19_MultiIntentKeepsEveryResult ==
    Classified("multi_intent") =>
        /\ Len(Issued) = 2 * Len(Acting)
        /\ ~last.ret.raised
        /\ \A k \in 1..Len(Acting) :
             /\ Sent(2 * k - 1)["to_agent"] = StrV("data_agent")
             /\ Sent(2 * k - 1)["method"] =
                   (IF Acting[k] = StrV("update_email") THEN StrV("update_customer")
                    ELSE StrV("get_customer_history"))
             /\ \E key \in DOMAIN last.ret.val.v["results"].v :
                   last.ret.val.v["results"].v[key] = ResultOf(2 * k)

\* the arguments call_tool reads with arguments[...]
Required(tool_name) ==
    CASE tool_name \in {"get_customer", "update_customer", "get_customer_history"} ->
           {"customer_id"}
      [] tool_name = "create_ticket" -> {"customer_id", "issue"}
      [] OTHER -> {}

IsTool(tool_name) == tool_name \in ToolNames \ {"delete_customer", "refund"}

\* the three kinds of fault under the last call_tool, seen from its inputs and the
\* store it ran on
MissingArgument ==
    IsTool(last.tool) /\ ~(Required(last.tool) \subseteq DOMAIN last.arguments.v)
StoreUnavailable ==
    /\ IsTool(last.tool) /\ ~MissingArgument /\ last.down
    /\ last.tool = "update_customer" =>
          \E f \in {"name", "email", "phone", "status"} :
              Truthy(PyGet(last.arguments, f, None))
ConstraintViolation ==
    /\ ~last.down
    /\ \/ /\ last.tool = "create_ticket"
          /\ last.arguments \in {DictV([customer_id |-> IntV(1), issue |-> None]),
                                 DictV([customer_id |-> IntV(1), issue |-> StrV("Refund"),
                                        priority |-> StrV("urgent")])}
          /\ 1 \in DOMAIN customers
       \/ /\ last.tool = "update_customer"
          /\ last.arguments = DictV([customer_id |-> IntV(2), status |-> StrV("gone")])
          /\ 2 \in DOMAIN customers

\* C20: call_tool never raises, for any tool name and any arguments mapping, and a
\* missing required argument, a Data Store constraint violation or an unavailable
\* store is returned as the mapping {error: message, tool: tool name, arguments:
\* the arguments}.
C20_GatewayNeverRaises ==
    last.op = "call_tool" =>
        /\ ~last.ret.raised
        /\ MissingArgument \/ StoreUnavailable \/ ConstraintViolation =>
              /\ IsDict(last.ret.val)
              /\ DOMAIN last.ret.val.v = {"error", "tool", "arguments"}
              /\ last.ret.val.v["error"].tag = "str"
              /\ last.ret.val.v["error"].v # ""
              /\ last.ret.val.v["tool"] = StrV(last.tool)
              /\ last.ret.val.v["arguments"] = last.arguments

C20_Witness ==
    /\ last.op = "call_tool"
    /\ ConstraintViolation
    /\ last.tool = "create_ticket"
    /\ last.ret.val.v["error"] =
          StrV("CHECK constraint failed: priority IN ('low', 'medium', 'high')")

\* C21: call_tool with a tool name outside the six operations returns
\* {error: "Unknown tool: <name>"} naming that tool, does not raise, and leaves the
\* Data Store unchanged.
C21_UnknownToolRefused ==
    [][(last.op = "none" /\ last'.op = "call_tool" /\ ~IsTool(last'.tool)) =>
          /\ last'.ret = Ret(DictV([error |-> Fmt("Unknown tool: ", StrV(last'.tool))]))
          /\ customers' = customers
          /\ tickets' = tickets]_vars

C21_Witness ==
    /\ last.op = "call_tool"
    /\ last.tool = "refund"
    /\ last.arguments = DictV([customer_id |-> IntV(1), issue |-> StrV("Refund"),
                               priority |-> StrV("urgent")])
    /\ last.ret.val = DictV([error |-> Fmt("Unknown tool: ", StrV("refund"))])
    /\ customers # <<>>

IsString(x) == x.tag \in {"str", "fstr"}

\* the two shapes of a tool result
SuccessShape(r) ==
    /\ HasKey(r, "success") /\ r.v["success"] = BoolV(TRUE)
    /\ ~HasKey(r, "error")
ErrorShape(r) ==
    /\ HasKey(r, "error") /\ IsString(r.v["error"])
    /\ ~HasKey(r, "success")

\* C22: every mapping call_tool returns for one of the six operations has exactly
\* one of two shapes: success true with no error key, or an error string with no
\* success key.
C22_SuccessOrError ==
    last.op = "call_tool" /\ IsTool(last.tool) =>
        /\ ~last.ret.raised
        /\ IsDict(last.ret.val)
        /\ SuccessShape(last.ret.val) # ErrorShape(last.ret.val)

C22_Witness ==
    /\ last.op = "call_tool"
    /\ last.tool = "get_customer"
    /\ last.arguments = DictV([customer_id |-> IntV(9)])
    /\ ~last.down
    /\ ErrorShape(last.ret.val)
    /\ last.ret.val.v["error"] = StrV("Customer not found")

\* the methods an agent's handle_message dispatches on
DispatchSet(agent) ==
    IF agent = "data_agent"
    THEN {StrV("get_customer"), StrV("list_customers"), StrV("update_customer"),
          StrV("get_customer_history"), StrV("create_ticket"), StrV("get_tickets")}
    ELSE {StrV("handle_support_query"), StrV("analyze_urgency"),
          StrV("generate_response"), StrV("get_tickets")}

GenCalled == SelectSeq(last.trace, LAMBDA ev : ev[1] = "gen")

\* C23: an envelope whose method is outside the agent's dispatch set is answered
\* with a success response whose result is {error: "Unknown method: <method>"} and
\* whose error is null, and neither the Tool Gateway nor the Text Generator is
\* invoked for it.
C23_UnknownMethodInBand ==
    last.op = "handle_message" /\ last.message.method \notin DispatchSet(last.agent) =>
        /\ ~last.ret.raised
        /\ last.ret.val.result =
              DictV([error |-> Fmt("Unknown method: ", last.message.method)])
        /\ last.ret.val.error = None
        /\ ToolsCalled = <<>>
        /\ GenCalled = <<>>

C23_Witness ==
    /\ last.op = "handle_message"
    /\ last.agent = "data_agent"
    /\ last.message.method = StrV("delete_customer")
    /\ last.message.params = None
    /\ last.ret.val.result = DictV([error |-> Fmt("Unknown method: ", StrV("delete_customer"))])
    /\ last.ret.val.error = None

\* the last call deserialized the mapping that to_dict made of the envelope wire.of
RoundTrip == last.op = "from_dict" /\ wire # None /\ last.message = wire.data

\* C24: for every request envelope m, whatever its method, params, agents and
\* caller-supplied or generated id, from_dict(to_dict(m)) equals m in method,
\* params, id, from_agent, to_agent and timestamp.
C24_RequestRoundTrip ==
    RoundTrip =>
        /\ ~last.ret.raised
        /\ \A f \in {"method", "params", "id", "from_agent", "to_agent", "timestamp"} :
              last.ret.val[f] = wire.of[f]

C24_Witness ==
    /\ RoundTrip
    /\ clock = 1
    /\ wire.of.timestamp = Stamp(0)
    /\ wire.of.id = Uuid(1)
    /\ uuid = 2
    /\ last.ret.val.id = Uuid(1)
    /\ last.ret.val.timestamp = Stamp(0)

\* the last call deserialized a request mapping that supplies an id
SuppliesAll ==
    /\ last.op = "from_dict"
    /\ {"method", "params", "from_agent", "to_agent", "id"} \subseteq DOMAIN last.message.v

\* C26: A2AMessage.from_dict(d), for a mapping d with method, params, from_agent,
\* to_agent and an id, has the same five fields as d, d's timestamp when d has one,
\* and the construction-time timestamp only when d has none.
C26_FromDictPreservesSupplied ==
    [][(last' # last /\ SuppliesAll') =>
          /\ ~last'.ret.raised
          /\ \A f \in {"method", "params", "from_agent", "to_agent", "id"} :
                last'.ret.val[f] = last'.message.v[f]
          /\ last'.ret.val.timestamp =
                (IF HasKey(last'.message, "timestamp") THEN last'.message.v["timestamp"]
                 ELSE Stamp(clock))]_vars

\* C25: for every Response Envelope r, from_dict(to_dict(r)) equals r in result,
\* error, id, from_agent and timestamp.
C25_ResponseRoundTrip ==
    RoundTrip =>
        \A f \in {"result", "error", "id", "from_agent", "timestamp"} :
            resp[f] = wire.of[f]

\* C27: a log entry is an independent snapshot of the envelope: once log_message /
\* log_response has returned, no later mutation of the envelope's params or result
\* object changes what get_conversation or get_all_messages returns for that entry.
C27_EntriesAreSnapshots ==
    [][Len(log') >= Len(log) =>
          \A i \in 1..Len(log) : Seen(heap', log'[i]) = Seen(heap, log[i])]_vars

NoCounts == [total_communications |-> 0, messages_sent |-> 0,
             responses_received |-> 0, errors |-> 0]

\* C28: the log is append-only: log_message and log_response each add exactly one
\* entry at the end and leave the earlier entries and their order unchanged;
\* get_conversation, get_all_messages and summary leave the log unchanged; entries
\* disappear only through clear, after which the log is empty and summary reports
\* zero in all four counts.
C28_LogIsAppendOnly ==
    [][/\ last'.op \in {"log_message", "log_response"} =>
            /\ Len(log') = Len(log) + 1
            /\ SubSeq(log', 1, Len(log)) = log
            /\ log'[Len(log')].type = (IF last'.op = "log_message" THEN "message"
                                       ELSE "response")
            /\ log'[Len(log')].data = (IF last'.op = "log_message"
                                       THEN Message_to_dict(resp')
                                       ELSE Response_to_dict(resp'))
       /\ last'.op \in {"get_conversation", "get_all_messages", "summary"} => log' = log
       /\ (\E i \in 1..Len(log) : i > Len(log') \/ log'[i] # log[i]) =>
            /\ last'.op = "clear"
            /\ log' = <<>>
            /\ summary(log') = NoCounts]_vars

C28_Witness ==
    /\ last.op = "summary"
    /\ Len(log) = 2
    /\ log[1].type = "response"
    /\ log[2].type = "message"
    /\ log[2].data.v["id"] = Uuid(2)
    /\ last.ret.val.total_communications = 2

Logged == {i \in 1..Len(last.trace) : last.trace[i][1] = "log"}

\* C29: each handle_message call appends exactly two log entries: a message entry
\* for the incoming envelope, before the operation is dispatched, and a response
\* entry with the same id for the response it returns, after the operation has
\* finished; on the success path, the unknown-method path and the exception path.
C29_TwoEntriesPerCall ==
    last.op = "handle_message" =>
        /\ Len(Issued) = 2
        /\ Issued[1] = [type |-> "message", data |-> Message_to_dict(last.message)]
        /\ Issued[2] = [type |-> "response", data |-> Response_to_dict(last.ret.val)]
        /\ Sent(2)["id"] = last.message.id
        /\ Logged = {1, Len(last.trace)}
        /\ last.trace[1] = <<"log", "message">>
        /\ last.trace[Len(last.trace)] = <<"log", "response">>

C29_Witness ==
    /\ last.op = "handle_message"
    /\ last.agent = "data_agent"
    /\ JSONDecodeError \in Faults
    /\ GenCalled # <<>>
    /\ Len(last.trace) > 3
    /\ Issued[2].type = "response"
    /\ "error" \in DOMAIN Sent(2)

\* the ids of the request envelopes in the log
IssuedIds == {log[i].data.v["id"] : i \in OfType(log, "message")}

\* C30: every request envelope the router issues has an id of its own, distinct
\* from the id of every other envelope of the same and of any other route_query
\* invocation, so that get_conversation(id) is exactly two entries: one message
\* followed by one response.
C30_IssuedIdsAreDistinct ==
    /\ \A i, j \in OfType(log, "message") :
          log[i].data.v["id"] = log[j].data.v["id"] => i = j
    /\ \A id \in IssuedIds :
          LET got == get_conversation(log, id)
          IN  /\ Len(got) = 2
              /\ got[1].type = "message"
              /\ got[2].type = "response"

C30_Witness ==
    /\ last.op = "route_query"
    /\ last.base = 4
    /\ Len(log) = 8
    /\ Cardinality(IssuedIds) = 4
    /\ get_conversation(log, Uuid(3)) = <<log[5], log[6]>>

\* C31: route_query and handle_message change nothing but the log and the Data
\* Store: the fields of the router and of the agents (agent id, agent card, the
\* references to the agents and to the gateway client) and the registry are after
\* any call what they were before it.
C31_CallsLeaveObjectsAlone ==
    [][(last.op = "none" /\ last'.op \in {"route_query", "handle_message"}) =>
          /\ last'.objects = Objects(connected)
          /\ connected' = connected]_vars

C31_Witness ==
    /\ last.op = "route_query"
    /\ Classified("complex_multi_agent")
    /\ ~connected["data_agent"]
    /\ connected["support_agent"]
    /\ Len(Issued) = 2
    /\ last.objects.agents["data_agent"].mcp_client = FALSE
    /\ last.objects.registry = AGENT_REGISTRY

\* the positions of the log at which an entry equal to e stands
At(e) == {i \in 1..Len(log) : log[i] = e}

AllReturned == \A p \in Invocations : calls[p].pc = "done"

\* C32: whatever the interleaving of concurrently running route_query invocations
\* on the one log, no entry is lost or duplicated, every response entry is preceded
\* by the message entry with the same id, and once all invocations have returned
\* summary reports messages_sent = responses_received.
C32_ConcurrentLogIsSound ==
    /\ \A p \in Invocations : \A k \in 1..Len(calls[p].appended) :
          Cardinality(At(calls[p].appended[k])) = 1
    /\ \A p \in Invocations : \A j, k \in 1..Len(calls[p].appended) :
          j < k => \A a \in At(calls[p].appended[j]) :
                   \A b \in At(calls[p].appended[k]) : a < b
    /\ Len(log) = Len(calls[1].appended) + Len(calls[2].appended)
    /\ \A i \in OfType(log, "response") :
          \E j \in OfType(log, "message") :
              j < i /\ log[j].data.v["id"] = log[i].data.v["id"]
    /\ AllReturned => summary(log).messages_sent = summary(log).responses_received

C32_Witness ==
    /\ AllReturned
    /\ Len(log) = 6
    /\ log[1].type = "message" /\ log[2].type = "message"
    /\ log[1].data.v["to_agent"] = StrV("data_agent")
    /\ log[2].data.v["to_agent"] = StrV("data_agent")
    /\ log[3].type = "response" /\ log[3].data.v["id"] = log[2].data.v["id"]
    /\ summary(log).messages_sent = 3

\* the request envelopes the last route_query issued, in order
IssuedMessages == SelectSeq(Issued, LAMBDA e : e.type = "message")

\* the k-th envelope the last route_query issued was answered with a failure: an
\* error Response Envelope or an in-band {error} result
AnsweredWithError(k) ==
    /\ Len(Issued) >= 2 * k
    /\ \/ "error" \in DOMAIN Sent(2 * k)
       \/ IsDict(ResultOf(2 * k)) /\ HasKey(ResultOf(2 * k), "error")

\* C33: the router never retries.  Outside multi_intent every step of a branch is
\* a method of its own, and no method is issued twice, whether or not the step was
\* answered with an error; in multi_intent there is at most one envelope per listed
\* intent.
C33_NoRetry ==
    last.op = "route_query" =>
        /\ ~Classified("multi_intent") =>
              \A i, j \in 1..Len(IssuedMessages) :
                  i # j => IssuedMessages[i].data.v["method"] #
                           IssuedMessages[j].data.v["method"]
        /\ Classified("multi_intent") =>
              /\ get(last.intent.val, "intents").tag = "list" =>
                    Len(IssuedMessages) <= Len(get(last.intent.val, "intents").v)
              /\ get(last.intent.val, "intents").tag # "list" => IssuedMessages = <<>>

C33_Witness ==
    /\ Classified("coordinated_support")
    /\ AnsweredWithError(1)
    /\ Len(IssuedMessages) = 2
    /\ IssuedMessages[1].data.v["method"] = StrV("get_customer")
    /\ IssuedMessages[2].data.v["method"] = StrV("handle_support_query")

\* the number of envelopes the last route_query issued is the one its branch allows
EnvelopeCountInBranch ==
    LET n == Len(IssuedMessages)
    IN  /\ UnknownType => n = 0
        /\ Classified("simple_data_retrieval") => n <= 1
        /\ Classified("coordinated_support") => n \in {1, 2}
        /\ Classified("complex_multi_agent") => n \in {1, 2}
        /\ Classified("escalation") => n = 2
        /\ Classified("multi_intent") /\ get(last.intent.val, "intents").tag = "list" =>
              n <= Len(get(last.intent.val, "intents").v)

\* C34: with the Intent Classifier, the Text Generator and the Data Store answering,
\* every route_query invocation that is called comes to its end, and at its end it
\* has issued no envelope for an unknown classification, at most one for
\* simple_data_retrieval, one or two for coordinated_support and
\* complex_multi_agent, two for escalation, and at most one per listed intent for
\* multi_intent.
C34_TerminatesWithinEnvelopeCount ==
    /\ [](last.op = "route_query" => EnvelopeCountInBranch)
    /\ (last.op = "running") ~> (last.op = "route_query")

C34_Witness ==
    /\ Classified("escalation")
    /\ Len(IssuedMessages) = 2
    /\ ~connected["support_agent"]
    /\ ~last.ret.raised

\* the last route_query ran one of the branches that resolve a customer id
ResolvingBranch ==
    \/ Classified("simple_data_retrieval")
    \/ Classified("coordinated_support")
    \/ Classified("multi_intent")

\* the customer ids the last route_query placed in the envelopes it issued
PlacedIds ==
    {IssuedMessages[k].data.v["params"].v["customer_id"] :
        k \in {j \in 1..Len(IssuedMessages) :
                  HasKey(IssuedMessages[j].data.v["params"], "customer_id")}}

\* C35: in the simple_data_retrieval, coordinated_support and multi_intent
\* branches the customer id placed in the issued envelopes is the caller's
\* customer_id whenever the caller supplied one, whatever integer it is, and the
\* classifier's customer_id_mentioned only when the caller supplied none.
C35_CallerIdTakesPrecedence ==
    ResolvingBranch =>
        \A id \in PlacedIds :
            IF last.customer_id # None
            THEN id = last.customer_id
            ELSE id = get(last.intent.val, "customer_id_mentioned")

\* the caller's id is nonzero, or the caller supplied none
C35_NonzeroCallerId ==
    ResolvingBranch /\ last.customer_id # IntV(0) =>
        \A id \in PlacedIds :
            IF last.customer_id # None
            THEN id = last.customer_id
            ELSE id = get(last.intent.val, "customer_id_mentioned")

\* C36: every envelope route_query issues is from router_agent and addressed to the
\* id of the agent whose handle_message receives it, and the response logged for
\* it is from that agent.
C36_EnvelopesAddressedToReceiver ==
    last.op = "route_query" =>
        /\ Len(Issued) = 2 * Len(DeliveredTo)
        /\ \A k \in 1..Len(DeliveredTo) :
              /\ Issued[2 * k - 1].type = "message"
              /\ Sent(2 * k - 1)["from_agent"] = StrV("router_agent")
              /\ Sent(2 * k - 1)["to_agent"] =
                     last.objects.agents[DeliveredTo[k][2]].agent_id
              /\ Issued[2 * k].type = "response"
              /\ Sent(2 * k)["id"] = Sent(2 * k - 1)["id"]
              /\ Sent(2 * k)["from_agent"] = Sent(2 * k - 1)["to_agent"]

C36_Witness ==
    /\ Classified("coordinated_support")
    /\ Len(DeliveredTo) = 2
    /\ Sent(1)["to_agent"] = StrV("data_agent")
    /\ Sent(2)["from_agent"] = StrV("data_agent")
    /\ Sent(3)["to_agent"] = StrV("support_agent")
    /\ Sent(4)["from_agent"] = StrV("support_agent")

\* the method names listed in an agent's capability descriptor
Listed(agent) ==
    {AGENT_REGISTRY[agent].methods[k] : k \in 1..Len(AGENT_REGISTRY[agent].methods)}

\* the last handle_message found no branch for the method of its envelope
NotDispatched ==
    /\ ~last.ret.raised
    /\ last.ret.val.result = DictV([error |-> Fmt("Unknown method: ", last.message.method)])

\* C37: for each specialist agent the methods its capability descriptor lists are
\* the methods its handle_message dispatches, neither more nor fewer, and every
\* method the router sends to an agent is listed in that agent's descriptor.
C37_DescriptorMatchesDispatch ==
    /\ last.op = "handle_message" =>
          (last.message.method \in Listed(last.agent) <=> ~NotDispatched)
    /\ last.op = "route_query" =>
          \A k \in 1..Len(IssuedMessages) :
              IssuedMessages[k].data.v["method"] \in
                  Listed(IssuedMessages[k].data.v["to_agent"].v)

\* the same for every envelope but get_tickets handed to the Support Agent
C37_ButSupportTickets ==
    /\ (/\ last.op = "handle_message"
        /\ ~(last.agent = "support_agent" /\ last.message.method = StrV("get_tickets"))) =>
          (last.message.method \in Listed(last.agent) <=> ~NotDispatched)
    /\ last.op = "route_query" =>
          \A k \in 1..Len(IssuedMessages) :
              \/ /\ IssuedMessages[k].data.v["method"] = StrV("get_tickets")
                 /\ IssuedMessages[k].data.v["to_agent"] = StrV("support_agent")
              \/ IssuedMessages[k].data.v["method"] \in
                     Listed(IssuedMessages[k].data.v["to_agent"].v)

\* C38: starting from the cleared log, each handle_message call on either agent
\* adds one to messages_sent and one to responses_received, and adds one to errors
\* exactly when its dispatched operation raised an exception (an in-band {error}
\* result adds none); so after any sequence of calls summary reports
\* messages_sent = responses_received = the number of calls, and errors = the
\* number of calls whose operation raised.
C38_SummaryCountsCalls ==
    /\ [](summary(log).messages_sent = summary(log).responses_received)
    /\ [][(last.op = "none" /\ last'.op = "handle_message") =>
            /\ summary(log').messages_sent = summary(log).messages_sent + 1
            /\ summary(log').responses_received = summary(log).responses_received + 1
            /\ summary(log').errors =
                  summary(log).errors + (IF Faults' # {} THEN 1 ELSE 0)]_vars

C38_Witness ==
    /\ last.op = "handle_message"
    /\ Faults = {}
    /\ IsDict(last.ret.val.result) /\ HasKey(last.ret.val.result, "error")
    /\ summary(log) = [total_communications |-> 4, messages_sent |-> 2,
                       responses_received |-> 2, errors |-> 1]

\* every ticket's customer_id is the id of a customer in the store
TicketsReferenceCustomers ==
    \A k \in 1..Len(tickets) :
        tickets[k].customer_id.tag = "int" /\ tickets[k].customer_id.v \in DOMAIN customers

\* the step is a create_ticket call with its required arguments, the store
\* available, for an id that is no customer's
CreatesForMissingCustomer ==
    /\ last.op = "none"
    /\ last'.op = "call_tool"
    /\ last'.tool = "create_ticket"
    /\ ~last'.down
    /\ HasKey(last'.arguments, "customer_id")
    /\ HasKey(last'.arguments, "issue")
    /\ last'.arguments.v["customer_id"].tag = "int"
    /\ last'.arguments.v["customer_id"].v \notin DOMAIN customers

\* C39: the store starts with every ticket referencing an existing customer, and
\* after any sequence of Tool Gateway operations it still does: create_ticket for
\* an id that is no customer's returns {error: "Customer not found", customer_id}
\* and adds no ticket.
C39_TicketsKeepTheirCustomers ==
    /\ []TicketsReferenceCustomers
    /\ [][CreatesForMissingCustomer =>
            /\ last'.ret = Ret(DictV([error |-> StrV("Customer not found"),
                                      customer_id |-> last'.arguments.v["customer_id"]]))
            /\ tickets' = tickets
            /\ customers' = customers]_vars

C39_Witness ==
    /\ last.op = "call_tool"
    /\ last.tool = "create_ticket"
    /\ last.arguments = DictV([customer_id |-> IntV(9), issue |-> StrV("Refund")])
    /\ last.ret = Ret(DictV([error |-> StrV("Customer not found"), customer_id |-> IntV(9)]))
    /\ Len(tickets) = 1
    /\ DOMAIN customers = {1, 2}

\* the step hands the Data Agent an update_customer envelope with a customer id
UpdateStep ==
    /\ last.op = "none"
    /\ last'.op = "handle_message"
    /\ last'.agent = "data_agent"
    /\ last'.message.method = StrV("update_customer")
    /\ IsDict(last'.message.params)
    /\ HasKey(last'.message.params, "customer_id")

UpdateFields == {"name", "email", "phone", "status"}

\* the envelope of the step supplies none of the four fields
NoFieldSupplied == \A f \in UpdateFields : ~HasKey(last'.message.params, f)

\* the envelope of the step supplies a field, for an id that is no customer's
UnknownCustomer ==
    /\ ~NoFieldSupplied
    /\ last'.message.params.v["customer_id"].tag = "int"
    /\ last'.message.params.v["customer_id"].v \notin DOMAIN customers

\* the envelope of the step supplies a status that is neither active nor disabled
InvalidStatus ==
    /\ HasKey(last'.message.params, "status")
    /\ last'.message.params.v["status"] \notin {StrV("active"), StrV("disabled")}

\* the response of the step carries an in-band {error} result and a null error
InBandError ==
    /\ ~last'.ret.raised
    /\ last'.ret.val.error = None
    /\ IsDict(last'.ret.val.result)
    /\ HasKey(last'.ret.val.result, "error")

\* what the three failing cases are to give
FailsInBand ==
    /\ NoFieldSupplied =>
          /\ InBandError
          /\ last'.ret.val.result = DictV([error |-> StrV("No fields to update")])
          /\ customers' = customers
    /\ UnknownCustomer =>
          /\ InBandError
          /\ DOMAIN last'.ret.val.result.v = {"error", "customer_id"}
          /\ customers' = customers
    /\ InvalidStatus =>
          /\ InBandError
          /\ customers' = customers

\* C40: an update_customer that fails leaves every customer record as it was and
\* reports in-band: {error: "No fields to update"} when none of name, email,
\* phone, status is supplied, an {error, customer_id} mapping for an id that is no
\* customer's, an {error} mapping for a status outside {active, disabled}; in the
\* three cases the Response Envelope's error is null.
C40_FailedUpdateIsInBand == [][UpdateStep => FailsInBand]_vars

\* the same with the Data Agent's gateway connected, every parameter one that
\* update_customer takes, no email to validate, and the status supplied a
\* non-empty string
C40_ConnectedWellFormed ==
    [][(/\ UpdateStep
        /\ connected["data_agent"]
        /\ DOMAIN last'.message.params.v \subseteq UpdateFields \cup {"customer_id"}
        /\ ~HasKey(last'.message.params, "email")
        /\ HasKey(last'.message.params, "status") =>
               Truthy(last'.message.params.v["status"])) => FailsInBand]_vars

====
